---- MODULE Spec2Model ----
(***************************************************************************)
(* State-machine model of the tiered admission controller                  *)
(* (src/src/utils/rate_limiter.py, class RateLimiter) and of the request   *)
(* handler that drives it (src/src/api/v1/analyze.py).                     *)
(*                                                                         *)
(* A store key "a:b:c" is modelled by the tuple of its ":"-separated       *)
(* segments, so that k.split(":")[-1] is k[Len(k)].  The distributed       *)
(* store maps a key to its value and absolute expiry time; the local       *)
(* store (local_cache) maps a key to its value.                            *)
(***************************************************************************)
EXTENDS Integers, Sequences, FiniteSets, TLC

VARIABLES
    clock,          \* int(time.time())
    ticks,          \* number of clock advances made so far (bounds the run)
    redis_client,   \* TRUE when initialize() connected, FALSE when it is None
    redis,          \* distributed store: key -> [val, exp]
    local_cache,    \* RateLimiter.local_cache: key -> value
    insertion_order, \* the slot records of local_cache in the order the dict
                    \* hands them out
    current_user,   \* the authenticated account the calls of a run are made for
    results,        \* history: outcome of every check_limit call, in order
    ret,            \* history: the operation that made the last step
    starts,         \* history: analysis_id -> number of starts that returned it
    decs,           \* history of interleaved runs: analysis_id -> decrements
                    \* of an active counter made on its behalf
    pc              \* per task: the await the task is suspended at, and the
                    \* local variables of the call it is in

vars == <<clock, ticks, redis_client, redis, local_cache, insertion_order,
          current_user, results, ret, starts, decs, pc>>

-----------------------------------------------------------------------------
(* Bounds of the model.                                                    *)

MaxTicks == 2          \* clock advances in a run
MaxCalls == 3          \* check_limit calls in a run
MaxStarts == 2         \* starts in a run of the governor
MaxConcStarts == 2     \* starts, or calls, in a run that also reads the status
MaxConcTicks == 1      \* clock advances in a run of many interleavings
MaxRaceCalls == 4      \* check_limit calls in a run of many interleavings
MaxFailCalls == 1      \* check_limit calls in a run with backend failures
MaxFailStarts == 1     \* admitted starts in a run with backend failures
MaxFailTicks == 1      \* clock advances in a run with backend failures

-----------------------------------------------------------------------------
(* Program constants.                                                      *)

\* the clock at the start of a run, and the amounts it advances by: within
\* a burst bucket, into the next bucket and into the next hour; for leases,
\* one second, the lease and one second more than the lease
T0 == 1700000000
TickSteps == {1, 60, 3540}
LeaseSteps == {1, 3600, 3601}

BURST_WINDOW == 60
HOURLY_WINDOW == 3600
DAILY_WINDOW == 86400
MONTHLY_WINDOW == 2592000
LEASE_TTL == 3600
CLEANUP_THRESHOLD == 10000
NoExpiry == -1
NoUser == "-"
NoToken == <<"-", 0>>

\* tier_limits with an enterprise hourly limit below the pro one
tier_limits_unscaled ==
    [free |-> [daily_limit |-> 10, hourly_limit |-> 5, monthly_limit |-> 50,
               burst_limit |-> 2, concurrent_analyses |-> 1],
     pro |-> [daily_limit |-> 100, hourly_limit |-> 25, monthly_limit |-> 2000,
              burst_limit |-> 10, concurrent_analyses |-> 3],
     enterprise |-> [daily_limit |-> 1000, hourly_limit |-> 20,
                     monthly_limit |-> 25000, burst_limit |-> 50,
                     concurrent_analyses |-> 10]]

tier_limits ==
    [free |-> [daily_limit |-> 10, hourly_limit |-> 5, monthly_limit |-> 50,
               burst_limit |-> 2, concurrent_analyses |-> 1],
     pro |-> [daily_limit |-> 100, hourly_limit |-> 25, monthly_limit |-> 2000,
              burst_limit |-> 10, concurrent_analyses |-> 3],
     enterprise |-> [daily_limit |-> 1000, hourly_limit |-> 200,
                     monthly_limit |-> 25000, burst_limit |-> 50,
                     concurrent_analyses |-> 10]]

\* self.tier_limits.get(tier, self.tier_limits["free"])
TierLimits(tier) ==
    IF tier \in DOMAIN tier_limits THEN tier_limits[tier] ELSE tier_limits["free"]

\* The accounts that call the controller: str(current_user.id) and
\* current_user.subscription_tier.value.
Accounts == {[id |-> "u1", tier |-> "free"], [id |-> "u2", tier |-> "pro"]}

Users == {a.id : a \in Accounts}

\* The rows of the users table: subscription_tier is a free string column,
\* so a row may carry a tier that tier_limits does not have.
StoredAccounts == Accounts \cup {[id |-> "u3", tier |-> "trial"]}

subscription_tier(u) == (CHOOSE a \in StoredAccounts : a.id = u).tier

\* checks with the hourly window compared against the burst limit
checks_hourly_burst(limits) ==
    << <<"burst", BURST_WINDOW, limits.burst_limit>>,
       <<"hourly", HOURLY_WINDOW, limits.burst_limit>>,
       <<"daily", DAILY_WINDOW, limits.daily_limit>>,
       <<"monthly", MONTHLY_WINDOW, limits.monthly_limit>> >>

\* checks = [("burst", 60, limits["burst_limit"]), ...] in check_limit
checks(limits) ==
    << <<"burst", BURST_WINDOW, limits.burst_limit>>,
       <<"hourly", HOURLY_WINDOW, limits.hourly_limit>>,
       <<"daily", DAILY_WINDOW, limits.daily_limit>>,
       <<"monthly", MONTHLY_WINDOW, limits.monthly_limit>> >>

-----------------------------------------------------------------------------
(* Keys.                                                                   *)

\* f"rate_limit:{user_id}:{limit_type}:{current_time // window}"
RateKey(u, limit_type, window, current_time) ==
    <<"rate_limit", u, limit_type, current_time \div window>>

\* f"concurrent:{user_id}"
ConcKey(u) == <<"concurrent", u>>

\* analysis_id = f"{user_id}:{int(time.time())}"
AnalysisId(u, now) == <<u, now>>

\* f"analysis:{analysis_id}"
AnalysisKey(id) == <<"analysis", id[1], id[2]>>

-----------------------------------------------------------------------------
(* The two stores.                                                         *)

EmptyStore == [k \in {} |-> 0]

Put(f, k, v) == IF k \in DOMAIN f THEN [f EXCEPT ![k] = v] ELSE (k :> v) @@ f

Remove(f, K) ==
    IF K \cap DOMAIN f = {} THEN f ELSE [x \in DOMAIN f \ K |-> f[x]]

\* local_cache.get(key, 0)
LocalGet(l, k) == IF k \in DOMAIN l THEN l[k] ELSE 0

\* v = await redis.get(key); int(v) if v else 0   (a stored "0" is truthy)
RedisGetInt(r, k) == IF k \in DOMAIN r THEN r[k].val ELSE 0

\* INCR replaced by a write of 1: the count that was there is lost
RedisIncr_overwrite(r, k) ==
    Put(r, k, [val |-> 1, exp |-> IF k \in DOMAIN r THEN r[k].exp ELSE NoExpiry])

\* INCR: a missing key counts from 0 and has no expiry
RedisIncr(r, k) ==
    IF k \in DOMAIN r THEN Put(r, k, [val |-> r[k].val + 1, exp |-> r[k].exp])
    ELSE Put(r, k, [val |-> 1, exp |-> NoExpiry])

\* DECR: a missing key counts from 0 and has no expiry
RedisDecr(r, k) ==
    IF k \in DOMAIN r THEN Put(r, k, [val |-> r[k].val - 1, exp |-> r[k].exp])
    ELSE Put(r, k, [val |-> -1, exp |-> NoExpiry])

\* EXPIRE key ttl
RedisExpire(r, k, ttl, now) ==
    IF k \in DOMAIN r THEN Put(r, k, [val |-> r[k].val, exp |-> now + ttl]) ELSE r

\* SET key v EX ttl
RedisSet(r, k, v, ttl, now) == Put(r, k, [val |-> v, exp |-> now + ttl])

\* DEL key
RedisDelete(r, k) == Remove(r, {k})

\* the keys the backend has dropped by the time the clock reads now
RedisPurge(r, now) ==
    Remove(r, {k \in DOMAIN r : r[k].exp # NoExpiry /\ r[k].exp <= now})


-----------------------------------------------------------------------------
(* WindowedRateLimiter: check_limit and its two helpers, as functions of   *)
(* the two stores.  rc is self.redis_client; the parameter ok of a helper  *)
(* says whether its backend call returned (TRUE) or raised (FALSE);        *)
(* current_time is the time check_limit read on entry, now the clock of    *)
(* the backend when it executes the call.                                  *)

\* the outcome of every backend call of one handler: all return
NoFail == [i \in 1..8 |-> TRUE]

\* user ids that int() parses, with their values
NumericUserIds == [k \in {} |-> 0]

\* int(k.split(":")[-1]) raises ValueError on a segment that is not a number
LastSegmentIsInt(k) == k[1] # "concurrent" \/ k[2] \in DOMAIN NumericUserIds

LastSegmentInt(k) == IF k[1] = "concurrent" THEN NumericUserIds[k[2]] ELSE k[Len(k)]

\* _check_window_limit admitting a request when the count equals the limit
_check_window_limit_inclusive(rc, st, user_id, limit_type, window, limit, current_time, ok) ==
    LET key == RateKey(user_id, limit_type, window, current_time)
    IN  IF rc /\ ok
        THEN RedisGetInt(st.redis, key) <= limit
        ELSE LocalGet(st.local, key) <= limit

_check_window_limit(rc, st, user_id, limit_type, window, limit, current_time, ok) ==
    LET key == RateKey(user_id, limit_type, window, current_time)
    IN  IF rc /\ ok
        THEN RedisGetInt(st.redis, key) < limit
        ELSE LocalGet(st.local, key) < limit

\* _increment_counter letting the backend's exception through
_increment_counter_surfacing(rc, st, user_id, limit_type, window, current_time, now, ok) ==
    LET key == RateKey(user_id, limit_type, window, current_time)
    IN  IF rc
        THEN IF ok
             THEN [redis |-> RedisExpire(RedisIncr(st.redis, key), key, window, now),
                   local |-> st.local, raised |-> FALSE]
             ELSE [redis |-> st.redis, local |-> st.local, raised |-> TRUE]
        ELSE [redis |-> st.redis, local |-> Put(st.local, key, LocalGet(st.local, key) + 1),
              raised |-> FALSE]

\* the pipeline (INCR key; EXPIRE key window) runs in the backend at its
\* clock now; the key is named from current_time
_increment_counter(rc, st, user_id, limit_type, window, current_time, now, ok) ==
    LET key == RateKey(user_id, limit_type, window, current_time)
        bumped == Put(st.local, key, LocalGet(st.local, key) + 1)
        cutoff_time == current_time - window
        keys_to_delete ==
            {k \in DOMAIN bumped : LastSegmentInt(k) < cutoff_time \div window}
    IN  IF rc /\ ok
        THEN [redis |-> RedisExpire(RedisIncr(st.redis, key), key, window, now),
              local |-> st.local, raised |-> FALSE]
        ELSE IF Cardinality(DOMAIN bumped) > CLEANUP_THRESHOLD
             THEN IF \E k \in DOMAIN bumped : ~LastSegmentIsInt(k)
                  THEN [redis |-> st.redis, local |-> bumped, raised |-> TRUE]
                  ELSE [redis |-> st.redis, local |-> Remove(bumped, keys_to_delete),
                        raised |-> FALSE]
             ELSE [redis |-> st.redis, local |-> bumped, raised |-> FALSE]

\* the second loop of check_limit leaving out the last window
RECURSIVE IncrementFrom_short(_, _, _, _, _, _, _)
IncrementFrom_short(rc, st, user_id, cs, current_time, oks, i) ==
    IF i > Len(cs) - 1
    THEN [allowed |-> TRUE, raised |-> FALSE, redis |-> st.redis, local |-> st.local]
    ELSE LET s1 == _increment_counter(rc, st, user_id, cs[i][1], cs[i][2],
                                      current_time, current_time, oks[Len(cs) + i])
         IN  IF s1.raised
             THEN [allowed |-> FALSE, raised |-> TRUE,
                   redis |-> s1.redis, local |-> s1.local]
             ELSE IncrementFrom_short(rc, [redis |-> s1.redis, local |-> s1.local],
                                      user_id, cs, current_time, oks, i + 1)

\* the second loop of check_limit, from the i-th window on, run while the
\* clock stands at current_time
RECURSIVE IncrementFrom(_, _, _, _, _, _, _)
IncrementFrom(rc, st, user_id, cs, current_time, oks, i) ==
    IF i > Len(cs)
    THEN [allowed |-> TRUE, raised |-> FALSE, redis |-> st.redis, local |-> st.local]
    ELSE LET s1 == _increment_counter(rc, st, user_id, cs[i][1], cs[i][2],
                                      current_time, current_time, oks[Len(cs) + i])
         IN  IF s1.raised
             THEN [allowed |-> FALSE, raised |-> TRUE,
                   redis |-> s1.redis, local |-> s1.local]
             ELSE IncrementFrom(rc, [redis |-> s1.redis, local |-> s1.local],
                                user_id, cs, current_time, oks, i + 1)

\* check_limit counting each window before it looks at the window's check
RECURSIVE CountThenCheckFrom(_, _, _, _, _, _, _)
CountThenCheckFrom(rc, st, user_id, cs, current_time, oks, i) ==
    IF i > Len(cs)
    THEN [allowed |-> TRUE, raised |-> FALSE, redis |-> st.redis, local |-> st.local]
    ELSE LET s1 == _increment_counter(rc, st, user_id, cs[i][1], cs[i][2],
                                      current_time, current_time, oks[Len(cs) + i])
         IN  IF ~_check_window_limit(rc, st, user_id, cs[i][1], cs[i][2], cs[i][3],
                                     current_time, oks[i])
             THEN [allowed |-> FALSE, raised |-> FALSE,
                   redis |-> s1.redis, local |-> s1.local]
             ELSE CountThenCheckFrom(rc, [redis |-> s1.redis, local |-> s1.local],
                                     user_id, cs, current_time, oks, i + 1)

check_limit_eager(rc, st, user_id, tier, current_time, oks) ==
    CountThenCheckFrom(rc, st, user_id, checks(TierLimits(tier)), current_time, oks, 1)

\* one call of check_limit run from entry to return while the clock stands
\* at current_time
check_limit(rc, st, user_id, tier, current_time, oks) ==
    LET limits == TierLimits(tier)
        cs == checks(limits)
        passed == \A i \in 1..Len(cs) :
                      _check_window_limit(rc, st, user_id, cs[i][1], cs[i][2],
                                          cs[i][3], current_time, oks[i])
    IN  IF ~passed
        THEN [allowed |-> FALSE, raised |-> FALSE,
              redis |-> st.redis, local |-> st.local]
        ELSE IncrementFrom(rc, st, user_id, cs, current_time, oks, 1)

-----------------------------------------------------------------------------
(* ConcurrencyGovernor: check_concurrent_analyses, start_analysis,         *)
(* finish_analysis and cleanup_stale_analyses, as functions of the two     *)
(* stores: one call run from entry to return while the clock stands at     *)
(* now.  A handler returns the two stores it leaves behind and, for the    *)
(* history variables, the ids on whose behalf it decremented an active     *)
(* counter (dec, a sequence).                                              *)

check_concurrent_analyses(rc, st, user_id, tier, ok) ==
    LET limits == TierLimits(tier)
        key == ConcKey(user_id)
    IN  IF rc /\ ok
        THEN RedisGetInt(st.redis, key) < limits.concurrent_analyses
        ELSE LocalGet(st.local, key) < limits.concurrent_analyses

\* lines 250-252: the local fallback of start_analysis
LocalStart(l, user_id, analysis_id, now) ==
    Put(Put(l, ConcKey(user_id), LocalGet(l, ConcKey(user_id)) + 1),
        AnalysisKey(analysis_id), now)

start_analysis(rc, st, user_id, now, oks) ==
    LET analysis_id == AnalysisId(user_id, now)
        key == ConcKey(user_id)
        r1 == RedisIncr(st.redis, key)
        r2 == RedisExpire(r1, key, LEASE_TTL, now)
        r3 == RedisSet(r2, AnalysisKey(analysis_id), now, LEASE_TTL, now)
        fallback(r) == [id |-> analysis_id, redis |-> r,
                        local |-> LocalStart(st.local, user_id, analysis_id, now)]
    IN  IF ~rc THEN fallback(st.redis)
        ELSE IF ~oks[1] THEN fallback(st.redis)
        ELSE IF ~oks[2] THEN fallback(r1)
        ELSE IF ~oks[3] THEN fallback(r2)
        ELSE [id |-> analysis_id, redis |-> r3, local |-> st.local]

\* lines 275-281: the local fallback of finish_analysis
LocalFinishDecrements(l, user_id) ==
    ConcKey(user_id) \in DOMAIN l /\ l[ConcKey(user_id)] > 0

LocalFinish(l, user_id, analysis_id) ==
    LET key == ConcKey(user_id)
        l1 == IF LocalFinishDecrements(l, user_id) THEN Put(l, key, l[key] - 1) ELSE l
    IN  Remove(l1, {AnalysisKey(analysis_id)})

\* if current_count and int(current_count) > 0
RedisPositive(r, k) == k \in DOMAIN r /\ r[k].val > 0

finish_analysis(rc, st, user_id, analysis_id, oks) ==
    LET key == ConcKey(user_id)
        positive == RedisPositive(st.redis, key)
        r1 == IF positive THEN RedisDecr(st.redis, key) ELSE st.redis
        r2 == RedisDelete(r1, AnalysisKey(analysis_id))
        d1 == IF positive THEN <<analysis_id>> ELSE <<>>
        fallback(r, d) ==
            [redis |-> r, local |-> LocalFinish(st.local, user_id, analysis_id),
             dec |-> IF LocalFinishDecrements(st.local, user_id)
                     THEN Append(d, analysis_id) ELSE d]
    IN  IF ~rc THEN fallback(st.redis, <<>>)
        ELSE IF ~oks[1] THEN fallback(st.redis, <<>>)
        ELSE IF positive /\ ~oks[2] THEN fallback(st.redis, <<>>)
        ELSE IF ~oks[3] THEN fallback(r1, d1)
        ELSE [redis |-> r2, local |-> st.local, dec |-> d1]

\* the orders in which a scan may hand out a set of keys: KEYS of the
\* backend promises none
Orders(keys) ==
    {order \in [1..Cardinality(keys) -> keys] :
        \A i, j \in 1..Cardinality(keys) : order[i] = order[j] => i = j}

\* a dict hands its keys out in the order they were inserted: a key that is
\* written again keeps its place, a key that is deleted loses it, a new key
\* goes last.  order holds the slot records of l; l2 is the dict after a
\* step, which writes at most one new record
DictOrder(order, l, l2) ==
    LET kept == SelectSeq(order, LAMBDA k : k \in DOMAIN l2)
        new == {k \in DOMAIN l2 \ DOMAIN l : k[1] = "analysis"}
    IN  IF new = {} THEN kept ELSE Append(kept, CHOOSE k \in new : TRUE)

\* for key, start_time in self.local_cache.items(): the stale records in the
\* order the dict hands them out
InScanOrder(order, keys) == SelectSeq(order, LAMBDA k : k \in keys)

\* lines 320-329: the second loop of the local cleanup
RECURSIVE LocalReclaim(_, _, _)
LocalReclaim(l, keys, dec) ==
    IF keys = <<>> THEN [local |-> l, dec |-> dec]
    ELSE LET key == Head(keys)
             user_id == key[2]
             concurrent_key == ConcKey(user_id)
             positive == concurrent_key \in DOMAIN l /\ l[concurrent_key] > 0
             l1 == IF positive THEN Put(l, concurrent_key, l[concurrent_key] - 1) ELSE l
         IN  LocalReclaim(Remove(l1, {key}), Tail(keys),
                          IF positive THEN Append(dec, <<key[2], key[3]>>) ELSE dec)

\* lines 294-308: the loop over the backend's analysis keys
RECURSIVE RedisReclaim(_, _, _, _)
RedisReclaim(r, keys, cutoff_time, dec) ==
    IF keys = <<>> THEN [redis |-> r, dec |-> dec]
    ELSE LET key == Head(keys)
             stale == key \in DOMAIN r /\ r[key].val < cutoff_time
             concurrent_key == ConcKey(key[2])
             positive == RedisPositive(r, concurrent_key)
             r1 == IF positive THEN RedisDecr(r, concurrent_key) ELSE r
         IN  IF stale
             THEN RedisReclaim(RedisDelete(r1, key), Tail(keys), cutoff_time,
                               IF positive THEN Append(dec, <<key[2], key[3]>>) ELSE dec)
             ELSE RedisReclaim(r, Tail(keys), cutoff_time, dec)

\* analysis_keys is what keys("analysis:*") returned, in the order it
\* returned it
cleanup_stale_analyses(rc, st, current_time, analysis_keys, ok) ==
    LET cutoff_time == current_time - LEASE_TTL
        keys_to_cleanup ==
            {k \in DOMAIN st.local : k[1] = "analysis" /\ st.local[k] < cutoff_time}
        viaRedis == RedisReclaim(st.redis, analysis_keys, cutoff_time, <<>>)
        viaLocal == LocalReclaim(st.local, InScanOrder(st.order, keys_to_cleanup), <<>>)
    IN  IF rc /\ ok
        THEN [redis |-> viaRedis.redis, local |-> st.local, dec |-> viaRedis.dec]
        ELSE [redis |-> st.redis, local |-> viaLocal.local, dec |-> viaLocal.dec]

-----------------------------------------------------------------------------
(* Usage introspection and reset, as functions of the two stores.          *)

WindowKinds == <<"burst", "hourly", "daily", "monthly">>

WindowSize == [burst |-> BURST_WINDOW, hourly |-> HOURLY_WINDOW,
               daily |-> DAILY_WINDOW, monthly |-> MONTHLY_WINDOW]

get_current_usage(rc, st, user_id, current_time, oks) ==
    [limit_type \in {WindowKinds[i] : i \in 1..4} |->
        LET key == RateKey(user_id, limit_type, WindowSize[limit_type], current_time)
            i == CHOOSE j \in 1..4 : WindowKinds[j] = limit_type
        IN  IF rc /\ oks[i]
            THEN RedisGetInt(st.redis, key)
            ELSE LocalGet(st.local, key)]

\* limits[f"{limit_type}_limit"]
LimitOf(tier, limit_type) ==
    CASE limit_type = "burst" -> TierLimits(tier).burst_limit
      [] limit_type = "hourly" -> TierLimits(tier).hourly_limit
      [] limit_type = "daily" -> TierLimits(tier).daily_limit
      [] limit_type = "monthly" -> TierLimits(tier).monthly_limit

\* the keys of the rate windows of a user in a store
RateKeysOf(f, user_id) == {k \in DOMAIN f : k[1] = "rate_limit" /\ k[2] = user_id}

\* oks[1]: keys(f"rate_limit:{user_id}:*"), oks[2]: delete(*keys)
reset_user_limits(rc, st, user_id, oks) ==
    LET keys == RateKeysOf(st.redis, user_id)
    IN  IF rc
        THEN IF ~oks[1] \/ (keys # {} /\ ~oks[2])
             THEN [ok |-> FALSE, redis |-> st.redis, local |-> st.local]
             ELSE [ok |-> TRUE, redis |-> Remove(st.redis, keys), local |-> st.local]
        ELSE [ok |-> TRUE, redis |-> st.redis,
              local |-> Remove(st.local, RateKeysOf(st.local, user_id))]

\* self.tier_limits.get(tier, self.tier_limits["free"]).copy()
get_tier_limits(tier) == TierLimits(tier)

\* next_reset rounding up: a time on a bucket boundary is its own reset
next_reset_ceiling(current_time, window) ==
    ((current_time + window - 1) \div window) * window

\* next_reset = ((current_time // window) + 1) * window
next_reset(current_time, window) == ((current_time \div window) + 1) * window

\* lines 336-364: what get_rate_limit_info makes of the usage it was given;
\* reset_times holds the timestamp each datetime is made from
rate_limit_info(tier, usage, current_time) ==
    LET limits == get_tier_limits(tier)
        kinds == {WindowKinds[i] : i \in 1..4}
        limit_of(limit_type) ==
            CASE limit_type = "burst" -> limits.burst_limit
              [] limit_type = "hourly" -> limits.hourly_limit
              [] limit_type = "daily" -> limits.daily_limit
              [] limit_type = "monthly" -> limits.monthly_limit
    IN  [tier |-> tier,
         limits |-> limits,
         current_usage |-> usage,
         remaining |-> [limit_type \in kinds |-> limit_of(limit_type) - usage[limit_type]],
         reset_times |->
             [limit_type \in kinds |-> next_reset(current_time, WindowSize[limit_type])],
         is_rate_limited |->
             \E limit_type \in kinds : usage[limit_type] >= limit_of(limit_type)]

\* get_rate_limit_info calling a user limited only above the limit
get_rate_limit_info_above(rc, st, user_id, tier, current_time, oks) ==
    LET info == rate_limit_info(tier, get_current_usage(rc, st, user_id, current_time, oks),
                                current_time)
    IN  [info EXCEPT !.is_rate_limited =
            \E n \in 1..4 :
                info.current_usage[WindowKinds[n]] > LimitOf(tier, WindowKinds[n])]

\* one call of get_rate_limit_info run while the clock stands at current_time
get_rate_limit_info(rc, st, user_id, tier, current_time, oks) ==
    rate_limit_info(tier, get_current_usage(rc, st, user_id, current_time, oks),
                    current_time)

-----------------------------------------------------------------------------
(* History of the slots.                                                   *)

Count(bag, id) == IF id \in DOMAIN bag THEN bag[id] ELSE 0

Bump(bag, id) == Put(bag, id, Count(bag, id) + 1)

RECURSIVE BumpAll(_, _)
BumpAll(bag, ids) ==
    IF ids = <<>> THEN bag ELSE BumpAll(Bump(bag, Head(ids)), Tail(ids))

RECURSIVE Total(_)
Total(bag) ==
    IF DOMAIN bag = {} THEN 0
    ELSE LET id == CHOOSE x \in DOMAIN bag : TRUE
         IN  bag[id] + Total(Remove(bag, {id}))

\* a token no start has ever returned
UnknownToken(u) == <<u, 0>>

\* the tokens a caller of finish_analysis may hold
TokensOf(u) == {id \in DOMAIN starts : id[1] = u} \cup {UnknownToken(u)}

-----------------------------------------------------------------------------
(* The calls as the event loop runs them.  Every caller is a task of one   *)
(* event loop.  A task gives up control only at an await of a backend      *)
(* call, so with a backend (redis_client set) one step of a call is: the   *)
(* backend executes the call the task is suspended at, at the clock of     *)
(* that moment, and the task runs on to its next await or to its return.   *)
(* Between two steps of a call the clock may advance and the other tasks   *)
(* may run.  Without a backend (redis_client is None) a call has no        *)
(* suspension point and is one step from entry to return.  The parameter   *)
(* ok of a step says whether the backend call returned or raised.          *)

Stores == [redis |-> redis, local |-> local_cache, order |-> insertion_order]

\* the step has written local_cache: the dict order of its slot records follows
DictWritten == insertion_order' = DictOrder(insertion_order, local_cache, local_cache')

Env == <<clock, ticks, redis_client, current_user>>

Tasks == {"t1", "t2"}

\* the ways the body of the analysis handler ends
Exits == {"return", "http_error", "exception"}

NoExit == "-"

NoTask == "-"

\* a task: the await it is suspended at (at), the arguments and local
\* variables of the call it is in (user, tok, time: the last int(time.time())
\* it read, acc: what it has gathered from the backend so far), what it does
\* when the call returns (cont), and, for the history, whether no other call
\* has been in flight since the call was entered (alone)
Idle == [at |-> "idle", user |-> NoUser, tok |-> NoToken, time |-> 0, acc |-> <<>>,
         alone |-> TRUE, cont |-> "done"]

\* what a step reports: the call that returned in it (op; "await" when none
\* did), its arguments and result, the task that made the step, whether a
\* backend call raised in the step, the exit the analysis handler took, and
\* the data the call returned
Outcome(op, u, tok, result) ==
    [op |-> op, user |-> u, tok |-> tok, result |-> result, failed |-> FALSE,
     alone |-> TRUE, task |-> NoTask, exit |-> NoExit, data |-> <<>>]

\* the outcome of one check_limit call: the current_time it read on entry,
\* the clock at its return, its result
Result(current_time, end, allowed, alone) ==
    [t |-> current_time, end |-> end, allowed |-> allowed, alone |-> alone]

InitCommon ==
    /\ clock = T0
    /\ ticks = 0
    /\ redis_client \in BOOLEAN
    /\ redis = EmptyStore
    /\ local_cache = EmptyStore
    /\ insertion_order = <<>>
    /\ results = <<>>
    /\ ret = Outcome("init", NoUser, NoToken, TRUE)
    /\ starts = EmptyStore
    /\ decs = EmptyStore
    /\ pc = [t \in Tasks |-> Idle]

Init ==
    /\ InitCommon
    /\ current_user \in Accounts

At(t, label) == pc[t].at = label

\* a new call runs in the first task of the event loop that is free: the
\* tasks differ in nothing else
TaskNo == [t1 |-> 1, t2 |-> 2]

Free(t) == At(t, "idle") /\ \A s \in Tasks : At(s, "idle") => TaskNo[t] <= TaskNo[s]

\* the tasks that are inside a call of the limiter
InFlight == {t \in Tasks : pc[t].at \notin {"idle", "handler_body"}}

\* the tasks once task t has entered a call and is suspended at its first
\* await: the call overlaps every call that is in flight
Entered(t, label, u, id, cont) ==
    [s \in Tasks |->
        IF s = t
        THEN [at |-> label, user |-> u, tok |-> id, time |-> clock, acc |-> <<>>,
              alone |-> InFlight \ {t} = {}, cont |-> cont]
        ELSE IF s \in InFlight THEN [pc[s] EXCEPT !.alone = FALSE] ELSE pc[s]]

\* task t enters a call and is suspended at its first await
Enter(t, label, u, id, cont) == pc' = Entered(t, label, u, id, cont)

\* task t runs on to its next await
Move(t, p) == pc' = [pc EXCEPT ![t] = p]

Await(t, ok) ==
    [Outcome("await", NoUser, NoToken, TRUE) EXCEPT !.failed = ~ok, !.task = t]

Reply(t, op, tok, result, ok) ==
    [op |-> op, user |-> pc[t].user, tok |-> tok, result |-> result, failed |-> ~ok,
     alone |-> pc[t].alone, task |-> t,
     exit |-> IF op = "finish" /\ pc[t].cont \in Exits THEN pc[t].cont ELSE NoExit,
     data |-> <<>>]

\* where a task goes when the call it is in returns r.  A client is done.
\* The analysis handler (analyze.py:152-325) goes from check_limit straight
\* into start_analysis, whose id is made before its first await; from
\* start_analysis into the inner try, which either reaches its first await
\* or raises before it and enters finish_analysis in the finally clause;
\* and from finish_analysis out of the handler.
Resume(p, r) ==
    CASE p.cont = "start" /\ r.op = "check_limit" /\ r.result ->
            {[Idle EXCEPT !.at = "start_incr", !.user = p.user,
                          !.tok = AnalysisId(p.user, clock), !.cont = "body"]}
      [] p.cont = "body" /\ r.op = "start" ->
            {[Idle EXCEPT !.at = "handler_body", !.user = p.user, !.tok = r.tok,
                          !.cont = "body"]}
            \cup {[Idle EXCEPT !.at = "finish_get", !.user = p.user, !.tok = r.tok,
                               !.cont = how] : how \in Exits \ {"return"}}
      [] OTHER -> {Idle}

\* the call of task t returns r; when the handler goes straight into its
\* next call, that call is entered in the same step
Return(t, r) ==
    /\ ret' = r
    /\ \E p \in Resume(pc[t], r) :
          IF p.at \in {"idle", "handler_body"}
          THEN pc' = [pc EXCEPT ![t] = p]
          ELSE Enter(t, p.at, p.user, p.tok, p.cont)

\* time passes; the backend drops the keys whose expiry has been reached
Tick(d) ==
    /\ ticks < MaxTicks
    /\ clock' = clock + d
    /\ ticks' = ticks + 1
    /\ redis' = RedisPurge(redis, clock + d)
    /\ ret' = Outcome("tick", NoUser, NoToken, TRUE)
    /\ UNCHANGED <<redis_client, local_cache, insertion_order, current_user, results,
                   starts, decs, pc>>

-----------------------------------------------------------------------------
(* check_limit.  The call reads current_time on entry and names every key  *)
(* from it; each _check_window_limit is one GET and each                   *)
(* _increment_counter one pipeline (INCR, EXPIRE) that the backend runs as *)
(* a transaction.                                                          *)

CheckAt == <<"check_burst", "check_hourly", "check_daily", "check_monthly">>

IncrAt == <<"incr_burst", "incr_hourly", "incr_daily", "incr_monthly">>

\* check_limit giving up control before its first window check whether or not
\* there is a backend
TaskCheckLimit_suspending(t, u) ==
    /\ Free(t)
    /\ Enter(t, CheckAt[1], u, NoToken, "done")
    /\ ret' = Await(t, TRUE)
    /\ UNCHANGED <<redis, local_cache, insertion_order, results, starts, decs>>
    /\ UNCHANGED Env

\* check_limit up to its first await: line 80 reads the time
TaskCheckLimit(t, u) ==
    /\ Free(t)
    /\ IF redis_client
       THEN /\ Enter(t, CheckAt[1], u, NoToken, "done")
            /\ ret' = Await(t, TRUE)
            /\ UNCHANGED <<redis, local_cache, insertion_order, results>>
       ELSE LET out == check_limit(FALSE, Stores, u, subscription_tier(u), clock, NoFail)
            IN  /\ local_cache' = out.local
                /\ DictWritten
                /\ results' = Append(results, Result(clock, clock, out.allowed, TRUE))
                /\ ret' = [Outcome(IF out.raised THEN "raise" ELSE "check_limit",
                                   u, NoToken, out.allowed) EXCEPT !.task = t]
                /\ UNCHANGED <<redis, pc>>
    /\ UNCHANGED <<starts, decs>>
    /\ UNCHANGED Env

\* await self._check_window_limit(...) of the i-th window
TaskCheckWindow(t, i, ok) ==
    /\ At(t, CheckAt[i])
    /\ LET u == pc[t].user
           cs == checks(TierLimits(subscription_tier(u)))
       IN  IF _check_window_limit(redis_client, Stores, u, cs[i][1], cs[i][2],
                                  cs[i][3], pc[t].time, ok)
           THEN /\ Move(t, [pc[t] EXCEPT !.at = IF i < Len(cs) THEN CheckAt[i + 1]
                                                ELSE IncrAt[1]])
                /\ ret' = Await(t, ok)
                /\ UNCHANGED results
           ELSE /\ Return(t, Reply(t, "check_limit", NoToken, FALSE, ok))
                /\ results' = Append(results, Result(pc[t].time, clock, FALSE, pc[t].alone))
    /\ UNCHANGED <<redis, local_cache, insertion_order, starts, decs>>
    /\ UNCHANGED Env

\* await self._increment_counter(...) of the i-th window
TaskIncrement(t, i, ok) ==
    /\ At(t, IncrAt[i])
    /\ LET u == pc[t].user
           cs == checks(TierLimits(subscription_tier(u)))
           out == _increment_counter(redis_client, Stores, u, cs[i][1], cs[i][2],
                                     pc[t].time, clock, ok)
       IN  /\ redis' = out.redis
           /\ local_cache' = out.local
           /\ DictWritten
           /\ IF out.raised
              THEN /\ Return(t, Reply(t, "raise", NoToken, FALSE, ok))
                   /\ results' = Append(results,
                                        Result(pc[t].time, clock, FALSE, pc[t].alone))
              ELSE IF i < Len(cs)
              THEN /\ Move(t, [pc[t] EXCEPT !.at = IncrAt[i + 1]])
                   /\ ret' = Await(t, ok)
                   /\ UNCHANGED results
              ELSE /\ Return(t, Reply(t, "check_limit", NoToken, TRUE, ok))
                   /\ results' = Append(results,
                                        Result(pc[t].time, clock, TRUE, pc[t].alone))
    /\ UNCHANGED <<starts, decs>>
    /\ UNCHANGED Env

-----------------------------------------------------------------------------
(* StartSlot: check_concurrent_analyses (one GET), then start_analysis     *)
(* (INCR, EXPIRE, SET).  The analysis_id is made when start_analysis is    *)
(* entered; the start time the record holds is read when the SET is        *)
(* issued, that is when the EXPIRE has returned.                           *)

\* check_concurrent_analyses up to its await
TaskStart(t, u) ==
    /\ Free(t)
    /\ IF redis_client
       THEN /\ Enter(t, "conc_get", u, NoToken, "done")
            /\ ret' = Await(t, TRUE)
            /\ UNCHANGED <<redis, local_cache, insertion_order, starts>>
       ELSE IF check_concurrent_analyses(FALSE, Stores, u, subscription_tier(u), TRUE)
       THEN LET out == start_analysis(FALSE, Stores, u, clock, NoFail)
            IN  /\ local_cache' = out.local
                /\ DictWritten
                /\ starts' = Bump(starts, out.id)
                /\ ret' = [Outcome("start", u, out.id, TRUE) EXCEPT !.task = t]
                /\ UNCHANGED <<redis, pc>>
       ELSE /\ ret' = [Outcome("start", u, NoToken, FALSE) EXCEPT !.task = t]
            /\ UNCHANGED <<redis, local_cache, insertion_order, starts, pc>>
    /\ UNCHANGED <<results, decs>>
    /\ UNCHANGED Env

\* current_count = await self.redis_client.get(key), line 221; when it
\* admits, start_analysis is entered
TaskConcGet(t, ok) ==
    /\ At(t, "conc_get")
    /\ LET u == pc[t].user
       IN  IF check_concurrent_analyses(redis_client, Stores, u, subscription_tier(u), ok)
           THEN /\ Move(t, [pc[t] EXCEPT !.at = "start_incr",
                                         !.tok = AnalysisId(u, clock)])
                /\ ret' = Await(t, ok)
           ELSE Return(t, Reply(t, "start", NoToken, FALSE, ok))
    /\ UNCHANGED <<redis, local_cache, insertion_order, results, starts, decs>>
    /\ UNCHANGED Env

\* except Exception: pass, then lines 250-254
StartFallback(t) ==
    /\ local_cache' = LocalStart(local_cache, pc[t].user, pc[t].tok, clock)
    /\ DictWritten
    /\ starts' = Bump(starts, pc[t].tok)
    /\ Return(t, Reply(t, "start", pc[t].tok, TRUE, FALSE))
    /\ UNCHANGED redis

\* await self.redis_client.incr(key)
TaskStartIncr(t, ok) ==
    /\ At(t, "start_incr")
    /\ IF ok
       THEN /\ redis' = RedisIncr(redis, ConcKey(pc[t].user))
            /\ Move(t, [pc[t] EXCEPT !.at = "start_expire"])
            /\ ret' = Await(t, ok)
            /\ UNCHANGED <<local_cache, insertion_order, starts>>
       ELSE StartFallback(t)
    /\ UNCHANGED <<results, decs>>
    /\ UNCHANGED Env

\* await self.redis_client.expire(key, 3600); then int(time.time()) is read
\* for the SET
TaskStartExpire(t, ok) ==
    /\ At(t, "start_expire")
    /\ IF ok
       THEN /\ redis' = RedisExpire(redis, ConcKey(pc[t].user), LEASE_TTL, clock)
            /\ Move(t, [pc[t] EXCEPT !.at = "start_set", !.time = clock])
            /\ ret' = Await(t, ok)
            /\ UNCHANGED <<local_cache, insertion_order, starts>>
       ELSE StartFallback(t)
    /\ UNCHANGED <<results, decs>>
    /\ UNCHANGED Env

\* await self.redis_client.set(analysis_key, int(time.time()), ex=3600)
TaskStartSet(t, ok) ==
    /\ At(t, "start_set")
    /\ IF ok
       THEN /\ redis' = RedisSet(redis, AnalysisKey(pc[t].tok), pc[t].time, LEASE_TTL, clock)
            /\ starts' = Bump(starts, pc[t].tok)
            /\ Return(t, Reply(t, "start", pc[t].tok, TRUE, ok))
            /\ UNCHANGED <<local_cache, insertion_order>>
       ELSE StartFallback(t)
    /\ UNCHANGED <<results, decs>>
    /\ UNCHANGED Env

-----------------------------------------------------------------------------
(* finish_analysis: GET, DECR when the count read was positive, DEL.       *)

\* finish_analysis up to its first await
TaskFinish(t, u, id) ==
    /\ Free(t)
    /\ IF redis_client
       THEN /\ Enter(t, "finish_get", u, id, "done")
            /\ ret' = Await(t, TRUE)
            /\ UNCHANGED <<redis, local_cache, insertion_order, decs>>
       ELSE LET out == finish_analysis(FALSE, Stores, u, id, NoFail)
            IN  /\ local_cache' = out.local
                /\ DictWritten
                /\ decs' = BumpAll(decs, out.dec)
                /\ ret' = [Outcome("finish", u, id, TRUE) EXCEPT !.task = t]
                /\ UNCHANGED <<redis, pc>>
    /\ UNCHANGED <<results, starts>>
    /\ UNCHANGED Env

\* except Exception: pass, then lines 275-281
FinishFallback(t) ==
    /\ local_cache' = LocalFinish(local_cache, pc[t].user, pc[t].tok)
    /\ DictWritten
    /\ decs' = IF LocalFinishDecrements(local_cache, pc[t].user)
               THEN Bump(decs, pc[t].tok) ELSE decs
    /\ Return(t, Reply(t, "finish", pc[t].tok, TRUE, FALSE))
    /\ UNCHANGED redis

\* current_count = await self.redis_client.get(key), line 263
TaskFinishGet(t, ok) ==
    /\ At(t, "finish_get")
    /\ IF ok
       THEN /\ Move(t, [pc[t] EXCEPT
                           !.at = IF RedisPositive(redis, ConcKey(pc[t].user))
                                  THEN "finish_decr" ELSE "finish_delete",
                           !.acc = <<RedisGetInt(redis, ConcKey(pc[t].user))>>])
            /\ ret' = Await(t, ok)
            /\ UNCHANGED <<redis, local_cache, insertion_order, decs>>
       ELSE FinishFallback(t)
    /\ UNCHANGED <<results, starts>>
    /\ UNCHANGED Env

\* await self.redis_client.decr(key)
TaskFinishDecr(t, ok) ==
    /\ At(t, "finish_decr")
    /\ IF ok
       THEN /\ redis' = RedisDecr(redis, ConcKey(pc[t].user))
            /\ decs' = Bump(decs, pc[t].tok)
            /\ Move(t, [pc[t] EXCEPT !.at = "finish_delete"])
            /\ ret' = Await(t, ok)
            /\ UNCHANGED <<local_cache, insertion_order>>
       ELSE FinishFallback(t)
    /\ UNCHANGED <<results, starts>>
    /\ UNCHANGED Env

\* await self.redis_client.delete(analysis_key)
TaskFinishDelete(t, ok) ==
    /\ At(t, "finish_delete")
    /\ IF ok
       THEN /\ redis' = RedisDelete(redis, AnalysisKey(pc[t].tok))
            /\ Return(t, Reply(t, "finish", pc[t].tok, TRUE, ok))
            /\ UNCHANGED <<local_cache, insertion_order, decs>>
       ELSE FinishFallback(t)
    /\ UNCHANGED <<results, starts>>
    /\ UNCHANGED Env

-----------------------------------------------------------------------------
(* cleanup_stale_analyses: KEYS, then for each key in the order the        *)
(* backend returned them GET, and for a stale record GET of the owner's    *)
(* counter, DECR when it was positive, DEL.  The cutoff is made from the   *)
(* time read on entry.  An exception of the backend ends the loop and the  *)
(* call goes on to clean the local store.                                  *)

\* cleanup_stale_analyses up to its first await
TaskSweep(t) ==
    /\ Free(t)
    /\ IF redis_client
       THEN /\ Enter(t, "sweep_keys", NoUser, NoToken, "done")
            /\ ret' = Await(t, TRUE)
            /\ UNCHANGED <<redis, local_cache, insertion_order, decs>>
       ELSE LET out == cleanup_stale_analyses(FALSE, Stores, clock, <<>>, TRUE)
            IN  /\ local_cache' = out.local
                /\ DictWritten
                /\ decs' = BumpAll(decs, out.dec)
                /\ ret' = [Outcome("sweep", NoUser, NoToken, TRUE) EXCEPT !.task = t]
                /\ UNCHANGED <<redis, pc>>
    /\ UNCHANGED <<results, starts>>
    /\ UNCHANGED Env

\* except Exception: print, then lines 313-329
SweepFallback(t) ==
    /\ LET out == cleanup_stale_analyses(redis_client, Stores, pc[t].time, <<>>, FALSE)
       IN  /\ local_cache' = out.local
           /\ DictWritten
           /\ decs' = BumpAll(decs, out.dec)
    /\ Return(t, Reply(t, "sweep", NoToken, TRUE, FALSE))
    /\ UNCHANGED redis

\* the loop takes the next key it was given, or the call returns
SweepNext(t, keys, ok) ==
    IF keys = <<>>
    THEN Return(t, Reply(t, "sweep", NoToken, TRUE, ok))
    ELSE /\ Move(t, [pc[t] EXCEPT !.at = "sweep_get",
                                  !.tok = <<Head(keys)[2], Head(keys)[3]>>,
                                  !.acc = Tail(keys)])
         /\ ret' = Await(t, ok)

\* analysis_keys = await self.redis_client.keys("analysis:*")
TaskSweepKeys(t, ok) ==
    /\ At(t, "sweep_keys")
    /\ IF ok
       THEN /\ \E analysis_keys \in Orders({k \in DOMAIN redis : k[1] = "analysis"}) :
                   SweepNext(t, analysis_keys, ok)
            /\ UNCHANGED <<redis, local_cache, insertion_order, decs>>
       ELSE SweepFallback(t)
    /\ UNCHANGED <<results, starts>>
    /\ UNCHANGED Env

\* start_time = await self.redis_client.get(key)
TaskSweepGet(t, ok) ==
    /\ At(t, "sweep_get")
    /\ IF ok
       THEN /\ LET key == AnalysisKey(pc[t].tok)
                   cutoff_time == pc[t].time - LEASE_TTL
               IN  IF key \in DOMAIN redis /\ redis[key].val < cutoff_time
                   THEN /\ Move(t, [pc[t] EXCEPT !.at = "sweep_conc"])
                        /\ ret' = Await(t, ok)
                   ELSE SweepNext(t, pc[t].acc, ok)
            /\ UNCHANGED <<redis, local_cache, insertion_order, decs>>
       ELSE SweepFallback(t)
    /\ UNCHANGED <<results, starts>>
    /\ UNCHANGED Env

\* current_count = await self.redis_client.get(concurrent_key)
TaskSweepConc(t, ok) ==
    /\ At(t, "sweep_conc")
    /\ IF ok
       THEN /\ Move(t, [pc[t] EXCEPT
                           !.at = IF RedisPositive(redis, ConcKey(pc[t].tok[1]))
                                  THEN "sweep_decr" ELSE "sweep_delete"])
            /\ ret' = Await(t, ok)
            /\ UNCHANGED <<redis, local_cache, insertion_order, decs>>
       ELSE SweepFallback(t)
    /\ UNCHANGED <<results, starts>>
    /\ UNCHANGED Env

\* await self.redis_client.decr(concurrent_key)
TaskSweepDecr(t, ok) ==
    /\ At(t, "sweep_decr")
    /\ IF ok
       THEN /\ redis' = RedisDecr(redis, ConcKey(pc[t].tok[1]))
            /\ decs' = Bump(decs, pc[t].tok)
            /\ Move(t, [pc[t] EXCEPT !.at = "sweep_delete"])
            /\ ret' = Await(t, ok)
            /\ UNCHANGED <<local_cache, insertion_order>>
       ELSE SweepFallback(t)
    /\ UNCHANGED <<results, starts>>
    /\ UNCHANGED Env

\* await self.redis_client.delete(key)
TaskSweepDelete(t, ok) ==
    /\ At(t, "sweep_delete")
    /\ IF ok
       THEN /\ redis' = RedisDelete(redis, AnalysisKey(pc[t].tok))
            /\ SweepNext(t, pc[t].acc, ok)
            /\ UNCHANGED <<local_cache, insertion_order, decs>>
       ELSE SweepFallback(t)
    /\ UNCHANGED <<results, starts>>
    /\ UNCHANGED Env

-----------------------------------------------------------------------------
(* get_current_usage (four GETs of the keys named from the time read on    *)
(* entry), get_rate_limit_info (get_current_usage, then the time is read   *)
(* again for the reset times) and reset_user_limits (KEYS, DEL).           *)

UsageAt == <<"usage_burst", "usage_hourly", "usage_daily", "usage_monthly">>

\* the usage a task has gathered, as the dict the call returns
UsageOf(acc) == [limit_type \in {WindowKinds[i] : i \in 1..4} |->
                    acc[CHOOSE j \in 1..4 : WindowKinds[j] = limit_type]]

\* await rate_limiter.get_current_usage(str(user.id)), up to its first await
TaskUsage(t, u) ==
    /\ Free(t)
    /\ IF redis_client
       THEN /\ Enter(t, UsageAt[1], u, NoToken, "done")
            /\ ret' = Await(t, TRUE)
       ELSE LET usage == get_current_usage(FALSE, Stores, u, clock, NoFail)
            IN  /\ ret' = [Outcome("usage", u, NoToken, TRUE) EXCEPT
                              !.task = t,
                              !.data = [i \in 1..4 |-> usage[WindowKinds[i]]]]
                /\ UNCHANGED pc
    /\ UNCHANGED <<redis, local_cache, insertion_order, results, starts, decs>>
    /\ UNCHANGED Env

\* await self.rate_limiter.get_rate_limit_info(str(user.id), tier), up to the
\* first await of its get_current_usage
TaskInfo(t, u) ==
    /\ Free(t)
    /\ IF redis_client
       THEN /\ Enter(t, UsageAt[1], u, NoToken, "info")
            /\ ret' = Await(t, TRUE)
       ELSE LET info == get_rate_limit_info(FALSE, Stores, u, subscription_tier(u),
                                            clock, NoFail)
            IN  /\ ret' = [Outcome("info", u, NoToken, info.is_rate_limited) EXCEPT
                              !.task = t,
                              !.data = [i \in 1..4 |-> info.current_usage[WindowKinds[i]]]]
                /\ UNCHANGED pc
    /\ UNCHANGED <<redis, local_cache, insertion_order, results, starts, decs>>
    /\ UNCHANGED Env

\* count = await self.redis_client.get(key) of the i-th window
TaskUsageGet(t, i, ok) ==
    /\ At(t, UsageAt[i])
    /\ LET u == pc[t].user
           count == get_current_usage(redis_client, Stores, u, pc[t].time,
                                      [j \in 1..8 |-> ok])[WindowKinds[i]]
           acc == Append(pc[t].acc, count)
       IN  IF i < 4
           THEN /\ Move(t, [pc[t] EXCEPT !.at = UsageAt[i + 1], !.acc = acc])
                /\ ret' = Await(t, ok)
           ELSE IF pc[t].cont = "info"
           THEN Return(t, [Reply(t, "info", NoToken,
                                 rate_limit_info(subscription_tier(u), UsageOf(acc),
                                                 clock).is_rate_limited, ok)
                              EXCEPT !.data = acc])
           ELSE Return(t, [Reply(t, "usage", NoToken, TRUE, ok) EXCEPT !.data = acc])
    /\ UNCHANGED <<redis, local_cache, insertion_order, results, starts, decs>>
    /\ UNCHANGED Env

\* a set of keys as the argument list of one command
RECURSIVE KeyList(_)
KeyList(keys) ==
    IF keys = {} THEN <<>>
    ELSE LET k == CHOOSE x \in keys : TRUE IN <<k>> \o KeyList(keys \ {k})

\* await self.rate_limiter.reset_user_limits(str(user.id)), up to its first
\* await
TaskReset(t, u) ==
    /\ Free(t)
    /\ IF redis_client
       THEN /\ Enter(t, "reset_keys", u, NoToken, "done")
            /\ ret' = Await(t, TRUE)
            /\ UNCHANGED <<redis, local_cache, insertion_order>>
       ELSE LET out == reset_user_limits(FALSE, Stores, u, NoFail)
            IN  /\ local_cache' = out.local
                /\ DictWritten
                /\ ret' = [Outcome("reset", u, NoToken, out.ok) EXCEPT !.task = t]
                /\ UNCHANGED <<redis, pc>>
    /\ UNCHANGED <<results, starts, decs>>
    /\ UNCHANGED Env

\* keys = await self.redis_client.keys(f"rate_limit:{user_id}:*")
TaskResetKeys(t, ok) ==
    /\ At(t, "reset_keys")
    /\ LET keys == RateKeysOf(redis, pc[t].user)
       IN  IF ~ok THEN Return(t, Reply(t, "reset", NoToken, FALSE, ok))
           ELSE IF keys = {} THEN Return(t, Reply(t, "reset", NoToken, TRUE, ok))
           ELSE /\ Move(t, [pc[t] EXCEPT !.at = "reset_delete", !.acc = KeyList(keys)])
                /\ ret' = Await(t, ok)
    /\ UNCHANGED <<redis, local_cache, insertion_order, results, starts, decs>>
    /\ UNCHANGED Env

\* await self.redis_client.delete(*keys)
TaskResetDelete(t, ok) ==
    /\ At(t, "reset_delete")
    /\ redis' = IF ok THEN Remove(redis, {pc[t].acc[i] : i \in DOMAIN pc[t].acc})
                ELSE redis
    /\ Return(t, Reply(t, "reset", NoToken, ok, ok))
    /\ UNCHANGED <<local_cache, insertion_order, results, starts, decs>>
    /\ UNCHANGED Env

-----------------------------------------------------------------------------
(* The steps by which the calls in flight go on, by kind of call.          *)

CheckLimitSteps(t, ok) ==
    \/ \E i \in 1..4 : TaskCheckWindow(t, i, ok)
    \/ \E i \in 1..4 : TaskIncrement(t, i, ok)

StartSteps(t, ok) ==
    \/ TaskStartIncr(t, ok)
    \/ TaskStartExpire(t, ok)
    \/ TaskStartSet(t, ok)

FinishSteps(t, ok) ==
    \/ TaskFinishGet(t, ok)
    \/ TaskFinishDecr(t, ok)
    \/ TaskFinishDelete(t, ok)

SweepSteps(t, ok) ==
    \/ TaskSweepKeys(t, ok)
    \/ TaskSweepGet(t, ok)
    \/ TaskSweepConc(t, ok)
    \/ TaskSweepDecr(t, ok)
    \/ TaskSweepDelete(t, ok)

ResetSteps(t, ok) ==
    \/ TaskResetKeys(t, ok)
    \/ TaskResetDelete(t, ok)

\* the calls that were entered, returned or not, of the kind the labels name
Started(labels) == Cardinality({t \in Tasks : pc[t].at \in labels})

CheckLabels == {CheckAt[i] : i \in 1..4} \cup {IncrAt[i] : i \in 1..4}

StartLabels == {"conc_get", "start_incr", "start_expire", "start_set"}

-----------------------------------------------------------------------------
(* Runs of check_limit: the calls of one account, made by the tasks of the *)
(* event loop, against a backend that answers every call or with none.    *)

Next ==
    \/ \E t \in Tasks :
          (Len(results) + Started(CheckLabels) < MaxCalls
              /\ TaskCheckLimit(t, current_user.id))
    \/ \E t \in Tasks : CheckLimitSteps(t, TRUE)
    \/ \E d \in TickSteps : Tick(d)

Spec == Init /\ [][Next]_vars

\* shorter runs, looked at for their interleavings
NextRace ==
    \/ \E t \in Tasks :
          (Len(results) + Started(CheckLabels) < MaxRaceCalls
              /\ TaskCheckLimit(t, current_user.id))
    \/ \E t \in Tasks : CheckLimitSteps(t, TRUE)
    \/ \E d \in TickSteps : (ticks < MaxConcTicks /\ Tick(d))

SpecRace == Init /\ [][NextRace]_vars

-----------------------------------------------------------------------------
(* Runs of the governor: starts, finishes and sweeps for one account.      *)

NextSlots ==
    \/ \E t \in Tasks :
          (Total(starts) + Started(StartLabels) < MaxStarts
              /\ TaskStart(t, current_user.id))
    \/ \E t \in Tasks : TaskConcGet(t, TRUE)
    \/ \E t \in Tasks : StartSteps(t, TRUE)
    \/ \E t \in Tasks : \E id \in TokensOf(current_user.id) :
          TaskFinish(t, current_user.id, id)
    \/ \E t \in Tasks : FinishSteps(t, TRUE)
    \/ \E t \in Tasks : TaskSweep(t)
    \/ \E t \in Tasks : SweepSteps(t, TRUE)
    \/ \E d \in LeaseSteps : (ticks < MaxConcTicks /\ Tick(d))

SpecSlots == Init /\ [][NextSlots]_vars

\* callers that start analyses and never finish them
NextLease ==
    \/ \E t \in Tasks :
          (Total(starts) + Started(StartLabels) < MaxStarts
              /\ TaskStart(t, current_user.id))
    \/ \E t \in Tasks : TaskConcGet(t, TRUE)
    \/ \E t \in Tasks : StartSteps(t, TRUE)
    \/ \E t \in Tasks : TaskSweep(t)
    \/ \E t \in Tasks : SweepSteps(t, TRUE)
    \/ \E d \in LeaseSteps : Tick(d)

SpecLease == Init /\ [][NextLease]_vars

-----------------------------------------------------------------------------
(* Runs over a backend whose calls fail one by one: each backend call of   *)
(* each step returns or raises.                                            *)

FinishLabels == {"finish_get", "finish_decr", "finish_delete"}

\* no call of the governor has been made
NoSlotCall == Total(starts) = 0 /\ Started(StartLabels \cup FinishLabels) = 0

\* no call of check_limit has been made
NoRateCall == Len(results) = 0 /\ Started(CheckLabels) = 0

\* the rate windows and the slots share no key: a run with backend failures
\* exercises the ones or the others, and resets and reads usage in both
NextFail ==
    \/ \E t \in Tasks :
          (NoSlotCall /\ Len(results) + Started(CheckLabels) < MaxFailCalls
              /\ TaskCheckLimit(t, current_user.id))
    \/ \E t \in Tasks : \E ok \in BOOLEAN : CheckLimitSteps(t, ok)
    \/ \E t \in Tasks :
          (NoRateCall /\ Total(starts) + Started(StartLabels) < MaxFailStarts
              /\ TaskStart(t, current_user.id))
    \/ \E t \in Tasks : \E ok \in BOOLEAN : TaskConcGet(t, ok)
    \/ \E t \in Tasks : \E ok \in BOOLEAN : StartSteps(t, ok)
    \/ \E t \in Tasks : \E id \in TokensOf(current_user.id) :
          (NoRateCall /\ TaskFinish(t, current_user.id, id))
    \/ \E t \in Tasks : \E ok \in BOOLEAN : FinishSteps(t, ok)
    \/ \E t \in Tasks : TaskUsage(t, current_user.id)
    \/ \E t \in Tasks : \E i \in 1..4 : \E ok \in BOOLEAN : TaskUsageGet(t, i, ok)
    \/ \E t \in Tasks : TaskReset(t, current_user.id)
    \/ \E t \in Tasks : \E ok \in BOOLEAN : ResetSteps(t, ok)
    \/ \E d \in {1, BURST_WINDOW} : (ticks < MaxFailTicks /\ Tick(d))

\* the accounts whose concurrency limit the starts of a run can reach
InitFail ==
    /\ InitCommon
    /\ current_user \in {a \in Accounts :
                            TierLimits(a.tier).concurrent_analyses <= MaxFailStarts}

SpecFail == InitFail /\ [][NextFail]_vars

MaxFlakyCalls == 3

NextFlaky ==
    \/ \E t \in Tasks :
          (Len(results) + Started(CheckLabels) < MaxFlakyCalls
              /\ TaskCheckLimit(t, current_user.id))
    \/ \E t \in Tasks : \E ok \in BOOLEAN : CheckLimitSteps(t, ok)
    \/ \E d \in TickSteps : (ticks < MaxConcTicks /\ Tick(d))

\* the accounts whose burst limit the calls of a run can reach
InitFlaky ==
    /\ InitCommon
    /\ current_user \in {a \in Accounts : TierLimits(a.tier).burst_limit < MaxFlakyCalls}

SpecFlaky == InitFlaky /\ [][NextFlaky]_vars

-----------------------------------------------------------------------------
(* Two controllers given the same sequence of calls, one call at a time,   *)
(* each call made on both at the same clock: one is served by the backend  *)
(* (its store is redis), the other has no backend (its store is            *)
(* local_cache) and so completes the call at once.  Neither touches the    *)
(* store of the other.                                                     *)

BackendRun == [redis |-> redis, local |-> EmptyStore]

LocalRun == [redis |-> EmptyStore, local |-> local_cache]

\* the task that makes the calls of a run without overlapping calls
Caller == "t1"

InitTwin ==
    /\ InitCommon
    /\ redis_client = TRUE
    /\ current_user \in Accounts

\* check_limit, called on both controllers
TwinCheckLimit(t) ==
    /\ Free(t)
    /\ InFlight = {}
    /\ LET b == check_limit(FALSE, LocalRun, current_user.id, current_user.tier,
                            clock, NoFail)
       IN  /\ local_cache' = b.local
           /\ DictWritten
           /\ ret' = [Outcome("twin_check_limit", current_user.id, NoToken, b.allowed)
                         EXCEPT !.task = t]
    /\ Enter(t, CheckAt[1], current_user.id, NoToken, "done")
    /\ UNCHANGED <<redis, results, starts, decs>>
    /\ UNCHANGED Env

\* StartSlot, called on both controllers
TwinStart(t) ==
    /\ Free(t)
    /\ InFlight = {}
    /\ LET u == current_user.id
           okB == check_concurrent_analyses(FALSE, LocalRun, u, current_user.tier, TRUE)
       IN  /\ local_cache' = IF okB
                             THEN start_analysis(FALSE, LocalRun, u, clock, NoFail).local
                             ELSE local_cache
           /\ DictWritten
           /\ ret' = [Outcome("twin_start", u, NoToken, okB) EXCEPT !.task = t]
           /\ Enter(t, "conc_get", u, NoToken, "done")
    /\ UNCHANGED <<redis, results, starts, decs>>
    /\ UNCHANGED Env

\* finish_analysis, called on both controllers
TwinFinish(t, id) ==
    /\ Free(t)
    /\ InFlight = {}
    /\ local_cache' = finish_analysis(FALSE, LocalRun, current_user.id, id, NoFail).local
    /\ DictWritten
    /\ ret' = [Outcome("twin_finish", current_user.id, id, TRUE) EXCEPT !.task = t]
    /\ Enter(t, "finish_get", current_user.id, id, "done")
    /\ UNCHANGED <<redis, results, starts, decs>>
    /\ UNCHANGED Env

NextTwin ==
    \/ (Len(results) < MaxConcStarts /\ TwinCheckLimit(Caller))
    \/ CheckLimitSteps(Caller, TRUE)
    \/ (Total(starts) < MaxStarts /\ TwinStart(Caller))
    \/ TaskConcGet(Caller, TRUE)
    \/ StartSteps(Caller, TRUE)
    \/ \E id \in TokensOf(current_user.id) : TwinFinish(Caller, id)
    \/ FinishSteps(Caller, TRUE)
    \/ \E d \in LeaseSteps : (InFlight = {} /\ ticks < MaxConcTicks /\ Tick(d))

SpecTwin == InitTwin /\ [][NextTwin]_vars

-----------------------------------------------------------------------------
(* Runs that also read the status, and callers whose stored tier the       *)
(* policy table may not have.                                              *)

MaxTierCalls == 2
MaxTierStarts == 2

InitTier ==
    /\ InitCommon
    /\ current_user \in StoredAccounts

\* a run exercises the rate windows or the slots, and reads the status in
\* both
NextTier ==
    \/ \E t \in Tasks :
          (NoSlotCall /\ Len(results) + Started(CheckLabels) < MaxTierCalls
              /\ TaskCheckLimit(t, current_user.id))
    \/ \E t \in Tasks : CheckLimitSteps(t, TRUE)
    \/ \E t \in Tasks :
          (NoRateCall /\ Total(starts) + Started(StartLabels) < MaxTierStarts
              /\ TaskStart(t, current_user.id))
    \/ \E t \in Tasks : TaskConcGet(t, TRUE)
    \/ \E t \in Tasks : StartSteps(t, TRUE)
    \/ \E t \in Tasks : \E id \in TokensOf(current_user.id) :
          TaskFinish(t, current_user.id, id)
    \/ \E t \in Tasks : FinishSteps(t, TRUE)
    \/ \E t \in Tasks : TaskInfo(t, current_user.id)
    \/ \E t \in Tasks : \E i \in 1..4 : TaskUsageGet(t, i, TRUE)
    \/ \E d \in TickSteps : (ticks < MaxConcTicks /\ Tick(d))

SpecTier == InitTier /\ [][NextTier]_vars

\* the bucket boundaries around T0, the second before and the second after
ClockSamples ==
    {(T0 \div WindowSize[WindowKinds[n]] + k) * WindowSize[WindowKinds[n]] + d :
        n \in 1..4, k \in 0..1, d \in {-1, 0, 1}}

MaxClockCalls == 1

InitClock ==
    /\ clock \in ClockSamples
    /\ ticks = 0
    /\ redis_client \in BOOLEAN
    /\ redis = EmptyStore
    /\ local_cache = EmptyStore
    /\ insertion_order = <<>>
    /\ current_user \in Accounts
    /\ results = <<>>
    /\ ret = Outcome("init", NoUser, NoToken, TRUE)
    /\ starts = EmptyStore
    /\ decs = EmptyStore
    /\ pc = [t \in Tasks |-> Idle]

NextClock ==
    \/ \E t \in Tasks :
          (Len(results) + Started(CheckLabels) < MaxClockCalls
              /\ TaskCheckLimit(t, current_user.id))
    \/ \E t \in Tasks : CheckLimitSteps(t, TRUE)
    \/ \E t \in Tasks : TaskInfo(t, current_user.id)
    \/ \E t \in Tasks : \E i \in 1..4 : TaskUsageGet(t, i, TRUE)
    \/ (ticks < MaxConcTicks /\ Tick(1))

SpecClock == InitClock /\ [][NextClock]_vars

-----------------------------------------------------------------------------
(* The lazy sweep of the local store.  Without a backend nothing removes   *)
(* a counter of a past bucket until the map holds more than 10000 entries, *)
(* so a process that has served requests for some days holds a backlog of  *)
(* such counters.  The runs below start from the map left by an enterprise *)
(* account that was admitted once every two minutes up to two minutes      *)
(* before T0, sized so that the map has room for MaxSweepRoom more entries *)
(* before an increment finds it above the threshold.  There is no backend  *)
(* in these runs, so every call is one step.                               *)

MaxSweepRoom == 4
MaxSweepCalls == 2
MaxSweepStarts == 1

BacklogAccount == [id |-> "u4", tier |-> "enterprise"]

\* the time of the j-th last request of the backlog
BacklogTime(j) == T0 - 2 * BURST_WINDOW * j

\* the number of keys the last n requests of the backlog have written: one
\* burst key each, and every hour, day and month they span
BacklogKeyCount(n) ==
    n + (BacklogTime(1) \div HOURLY_WINDOW) - (BacklogTime(n) \div HOURLY_WINDOW) + 1
      + (BacklogTime(1) \div DAILY_WINDOW) - (BacklogTime(n) \div DAILY_WINDOW) + 1
      + (BacklogTime(1) \div MONTHLY_WINDOW) - (BacklogTime(n) \div MONTHLY_WINDOW) + 1

BacklogRequests ==
    CHOOSE n \in 1..CLEANUP_THRESHOLD :
        /\ BacklogKeyCount(n) <= CLEANUP_THRESHOLD - MaxSweepRoom
        /\ BacklogKeyCount(n + 1) > CLEANUP_THRESHOLD - MaxSweepRoom

\* local_cache after check_limit has admitted the requests of the backlog:
\* each key holds the number of requests that fell into its bucket
Backlog ==
    LET u == BacklogAccount.id
        keys == {RateKey(u, WindowKinds[i], WindowSize[WindowKinds[i]], BacklogTime(j)) :
                    i \in 1..4, j \in 1..BacklogRequests}
        hits(k) ==
            LET W == WindowSize[k[3]]
                first == (T0 - (k[4] + 1) * W) \div (2 * BURST_WINDOW)
                last == (T0 - k[4] * W) \div (2 * BURST_WINDOW) + 1
            IN  Cardinality({j \in first..last :
                                /\ j \in 1..BacklogRequests
                                /\ BacklogTime(j) \div W = k[4]})
    IN  [k \in keys |-> hits(k)]

InitSweep ==
    /\ clock = T0
    /\ ticks = 0
    /\ redis_client = FALSE
    /\ redis = EmptyStore
    /\ local_cache = Backlog
    /\ insertion_order = <<>>
    /\ current_user \in Accounts
    /\ results = <<>>
    /\ ret = Outcome("init", NoUser, NoToken, TRUE)
    /\ starts = EmptyStore
    /\ decs = EmptyStore
    /\ pc = [t \in Tasks |-> Idle]

\* the next request is made by another account
SwitchUser(a) ==
    /\ a # current_user
    /\ current_user' = a
    /\ ret' = Outcome("request", a.id, NoToken, TRUE)
    /\ UNCHANGED <<clock, ticks, redis_client, redis, local_cache, insertion_order,
                   results, starts, decs, pc>>

\* the runs that reset take no slot: each removal from a map of this size is
\* slow to compute
NextSweep ==
    \/ (Len(results) < MaxSweepCalls /\ TaskCheckLimit(Caller, current_user.id))
    \/ (Total(starts) < MaxSweepStarts /\ TaskStart(Caller, current_user.id))
    \/ \E id \in TokensOf(current_user.id) : TaskFinish(Caller, current_user.id, id)
    \/ (Total(starts) = 0 /\ TaskReset(Caller, current_user.id))
    \/ \E a \in Accounts : SwitchUser(a)

SpecSweep == InitSweep /\ [][NextSweep]_vars

-----------------------------------------------------------------------------
(* The multi-format analysis request handler (analyze.py:133-331).  Each   *)
(* request runs as a task: check_limit, on refusal HTTP 429;               *)
(* start_analysis; the inner try, which returns, raises an HTTPException   *)
(* or raises another exception, before or after its first await;          *)
(* finish_analysis in the finally clause; the response.  With a backend    *)
(* the request gives up control at each backend call of the three limiter  *)
(* calls and at the awaits of the body; without one only at the awaits of  *)
(* the body.                                                               *)

MaxRequests == 3

\* a request arrives: the handler runs up to its first await
HandlerRequest(t) ==
    /\ Free(t)
    /\ LET u == current_user.id
           out == check_limit(FALSE, Stores, u, current_user.tier, clock, NoFail)
           s == start_analysis(FALSE, [redis |-> redis, local |-> out.local], u, clock,
                               NoFail)
           f == finish_analysis(FALSE, [redis |-> redis, local |-> s.local], u, s.id,
                                NoFail)
       IN  IF redis_client
           THEN /\ Enter(t, CheckAt[1], u, NoToken, "start")
                /\ ret' = Await(t, TRUE)
                /\ UNCHANGED <<local_cache, insertion_order, results, starts, decs>>
           ELSE /\ results' = Append(results, Result(clock, clock, out.allowed, TRUE))
                /\ IF ~out.allowed
                   THEN \* HTTP 429, or HTTP 500 when check_limit raised
                        /\ local_cache' = out.local
                        /\ DictWritten
                        /\ ret' = [Outcome(IF out.raised THEN "raise" ELSE "check_limit",
                                           u, NoToken, FALSE) EXCEPT !.task = t]
                        /\ UNCHANGED <<starts, decs, pc>>
                   ELSE /\ starts' = Bump(starts, s.id)
                        /\ \/ \* the inner try reaches its first await
                              /\ local_cache' = s.local
                              /\ DictWritten
                              /\ Move(t, [Idle EXCEPT !.at = "handler_body", !.user = u,
                                                      !.tok = s.id, !.cont = "body"])
                              /\ ret' = [Outcome("start", u, s.id, TRUE) EXCEPT !.task = t]
                              /\ UNCHANGED decs
                           \/ \* the inner try raises before its first await
                              \E how \in Exits \ {"return"} :
                                 /\ local_cache' = f.local
                                 /\ DictWritten
                                 /\ decs' = BumpAll(decs, f.dec)
                                 /\ ret' = [Outcome("finish", u, s.id, TRUE) EXCEPT
                                               !.task = t, !.exit = how]
                                 /\ UNCHANGED pc
    /\ UNCHANGED redis
    /\ UNCHANGED Env

\* the inner try ends after its awaits: it returns the response or raises,
\* which enters finish_analysis when the finally clause protects it
BodyEnds(t, how, protected) ==
    /\ At(t, "handler_body")
    /\ IF ~protected
       THEN /\ Move(t, Idle)
            /\ ret' = [Outcome("body", pc[t].user, pc[t].tok, FALSE) EXCEPT
                          !.task = t, !.exit = how]
            /\ UNCHANGED <<local_cache, insertion_order, decs>>
       ELSE IF redis_client
       THEN /\ Enter(t, "finish_get", pc[t].user, pc[t].tok, how)
            /\ ret' = [Outcome("body", pc[t].user, pc[t].tok, how = "return") EXCEPT
                          !.task = t]
            /\ UNCHANGED <<local_cache, insertion_order, decs>>
       ELSE LET f == finish_analysis(FALSE, Stores, pc[t].user, pc[t].tok, NoFail)
            IN  /\ local_cache' = f.local
                /\ DictWritten
                /\ decs' = BumpAll(decs, f.dec)
                /\ Move(t, Idle)
                /\ ret' = [Outcome("finish", pc[t].user, pc[t].tok, TRUE) EXCEPT
                              !.task = t, !.exit = how]
    /\ UNCHANGED <<redis, results, starts>>
    /\ UNCHANGED Env

\* the body of the inner try ending without its finally clause when it raises
HandlerBody_unprotected(t, how) == BodyEnds(t, how, how = "return")

\* try: ... finally: await rate_limiter.finish_analysis(...)
HandlerBody(t, how) == BodyEnds(t, how, TRUE)

\* what a request that has been accepted by the event loop does next
HandlerContinue(t) ==
    \/ CheckLimitSteps(t, TRUE)
    \/ StartSteps(t, TRUE)
    \/ \E how \in Exits : HandlerBody(t, how)
    \/ FinishSteps(t, TRUE)

NextHandler ==
    \/ \E t \in Tasks :
          (Len(results) + Started(CheckLabels) < MaxRequests /\ HandlerRequest(t))
    \/ \E t \in Tasks : HandlerContinue(t)
    \/ (ticks < MaxConcTicks /\ Tick(1))

\* the accounts whose burst limit the requests of a run can reach
InitHandler ==
    /\ InitCommon
    /\ current_user \in {a \in Accounts : TierLimits(a.tier).burst_limit < MaxRequests}

\* the event loop runs every request that can continue, and the body of the
\* handler ends
SpecHandler ==
    InitHandler /\ [][NextHandler]_vars /\ \A t \in Tasks : WF_vars(HandlerContinue(t))

-----------------------------------------------------------------------------
(* Claims about the windowed rate limiter.                                 *)

\* the usage of u the two stores hold at the present clock
Usage(u) == get_current_usage(redis_client, Stores, u, clock, NoFail)

\* the count the stores r and l hold under key k
Held(r, l, k) == RedisGetInt(r, k) + LocalGet(l, k)

\* the key of its n-th window that the call of task t names
KeyOf(t, n) == RateKey(pc[t].user, WindowKinds[n], WindowSize[WindowKinds[n]], pc[t].time)

\* the counters of the rate windows, in both stores
RateCounters ==
    {<<k, redis[k].val>> : k \in {x \in DOMAIN redis : x[1] = "rate_limit"}}
        \cup {<<k, local_cache[k]>> :
                k \in {x \in DOMAIN local_cache : x[1] = "rate_limit"}}

\* the keys of the rate windows whose count the step changes
RateKeysChanged ==
    {k \in {x \in DOMAIN redis \cup DOMAIN local_cache
                    \cup DOMAIN redis' \cup DOMAIN local_cache' : x[1] = "rate_limit"} :
        Held(redis', local_cache', k) # Held(redis, local_cache, k)}

LastResult == results[Len(results)]

\* the step is the return of a check_limit call
IsCheckStep == results' # results

\* no call of the run has overlapped another one
Sequential ==
    /\ \A i \in DOMAIN results : results[i].alone
    /\ \A t \in InFlight : pc[t].alone

\* the call ran while the clock stayed inside one burst bucket
InOneBucket(r) == r.t \div BURST_WINDOW = r.end \div BURST_WINDOW

\* the task whose call returns in the step
Returning(t) == IsCheckStep /\ ret'.task = t

\* the calls admitted while the clock stayed inside the burst bucket
AdmittedIn(bucket) ==
    Cardinality({i \in DOMAIN results :
                    /\ results[i].allowed
                    /\ InOneBucket(results[i])
                    /\ results[i].t \div BURST_WINDOW = bucket})

\* C2: in a sequential run the number of check_limit calls that return true
\* while the clock stays in one burst bucket never exceeds the caller's
\* burst_limit.
C2_WindowMonotonicity ==
    Sequential =>
        \A i \in DOMAIN results :
            AdmittedIn(results[i].t \div BURST_WINDOW)
                <= tier_limits[current_user.tier].burst_limit

\* over the backend a caller has used its whole burst allowance, the clock
\* has advanced inside the bucket and the next call was turned away
C2_Witness ==
    /\ redis_client
    /\ Sequential
    /\ ticks > 0
    /\ ret.op = "check_limit" /\ ~ret.result
    /\ AdmittedIn(clock \div BURST_WINDOW) = tier_limits[current_user.tier].burst_limit

\* C8: from empty counters the k-th call of a sequential run inside the first
\* burst bucket is admitted exactly for k <= burst_limit (free: true, true,
\* false), and every call that runs alone inside one burst bucket is admitted
\* exactly when each of the four windows was below its limit before the call.
C8_FirstBucket ==
    Sequential =>
        \A k \in DOMAIN results :
            results[k].end \div BURST_WINDOW = T0 \div BURST_WINDOW
                => (results[k].allowed <=> k <= tier_limits[current_user.tier].burst_limit)

\* the count under key k before the call that returns in the step: the call
\* ran alone and no key of its buckets expired, so it is the count after the
\* call less the call's own increment
BeforeCall(k) ==
    Held(redis', local_cache', k) - (IF LastResult'.allowed THEN 1 ELSE 0)

C8_Decision ==
    \A t \in Tasks :
        (Returning(t) /\ LastResult'.alone /\ InOneBucket(LastResult')) =>
            (LastResult'.allowed <=>
                \A n \in 1..4 :
                    BeforeCall(RateKey(ret'.user, WindowKinds[n],
                                       WindowSize[WindowKinds[n]], LastResult'.t))
                        < LimitOf(current_user.tier, WindowKinds[n]))

C8_ExactAdmission == []C8_FirstBucket /\ [][C8_Decision]_vars

\* a free caller made three calls over the backend within the first second:
\* true, true, false
C8_Witness ==
    /\ current_user.tier = "free"
    /\ redis_client
    /\ clock = T0
    /\ Sequential
    /\ Len(results) = 3
    /\ results[1].allowed /\ results[2].allowed /\ ~results[3].allowed

\* the window checks of a call
CheckPositions == {CheckAt[i] : i \in 1..4}

\* C9: a call that returns false has changed no counter of either store, and
\* a call made while some window is at or above its limit returns false: a
\* window check changes nothing and a denial is the return of a window
\* check; without a backend the whole call is one step.
C9_Frame ==
    /\ \A t \in Tasks :
          (pc[t].at \in CheckPositions /\ pc'[t].at # pc[t].at)
              => (redis' = redis /\ local_cache' = local_cache)
    /\ \A t \in Tasks :
          (Returning(t) /\ redis_client /\ ~LastResult'.allowed)
              => pc[t].at \in CheckPositions
    /\ \A t \in Tasks :
          (Returning(t) /\ redis_client /\ LastResult'.alone /\ InOneBucket(LastResult')
            /\ \E n \in 1..4 :
                  BeforeCall(RateKey(ret'.user, WindowKinds[n],
                                     WindowSize[WindowKinds[n]], LastResult'.t))
                      >= LimitOf(current_user.tier, WindowKinds[n]))
              => ~LastResult'.allowed
    /\ (IsCheckStep /\ ~redis_client /\
           (\/ ~LastResult'.allowed
            \/ \E n \in 1..4 :
                   Usage(current_user.id)[WindowKinds[n]]
                       >= LimitOf(current_user.tier, WindowKinds[n])))
         => (~LastResult'.allowed /\ redis' = redis /\ local_cache' = local_cache)

C9_DeniedMutatesNothing == [][C9_Frame]_vars

\* a call was denied over the backend while another call, admitted by its
\* checks, was between its increments
C9_Witness ==
    /\ redis_client
    /\ ret.op = "check_limit" /\ ~ret.result
    /\ \E t \in Tasks : pc[t].at \in {IncrAt[i] : i \in 2..4}

\* C10: an admitted call raises the counter of each of the four windows by
\* exactly 1, in the buckets its checks read: each increment raises the key
\* the call named on entry for that window and no other, a call returns true
\* from its fourth increment, and without a backend the call is one step that
\* raises the four.
C10_Effect ==
    /\ \A t \in Tasks : \A n \in 1..4 :
          (pc[t].at = IncrAt[n] /\ pc'[t].at # pc[t].at) =>
              /\ Held(redis', local_cache', KeyOf(t, n))
                    = Held(redis, local_cache, KeyOf(t, n)) + 1
              /\ RateKeysChanged = {KeyOf(t, n)}
              /\ IF n < 4 THEN pc'[t].at = IncrAt[n + 1] /\ pc'[t].time = pc[t].time
                 ELSE Returning(t) /\ LastResult'.allowed
    /\ \A t \in Tasks :
          (Returning(t) /\ redis_client /\ LastResult'.allowed) => pc[t].at = IncrAt[4]
    /\ \A t \in Tasks : \A n \in 1..3 :
          (pc[t].at = CheckAt[n] /\ pc'[t].at \notin {CheckAt[n], "idle"})
              => (pc'[t].at = CheckAt[n + 1] /\ pc'[t].time = pc[t].time)
    /\ (IsCheckStep /\ ~redis_client /\ LastResult'.allowed) =>
          \A n \in 1..4 :
              Usage(current_user.id)'[WindowKinds[n]]
                  = Usage(current_user.id)[WindowKinds[n]] + 1

C10_AllowedIncrementsAll == [][C10_Effect]_vars

\* an admitted call found earlier admissions of the same hour in another
\* burst bucket: the four counters differ and each one went up
C10_Witness ==
    /\ ret.op = "check_limit" /\ ret.result
    /\ Usage(current_user.id)["burst"] = 1
    /\ Usage(current_user.id)["hourly"] > 1
    /\ Usage(current_user.id)["monthly"] > 1

-----------------------------------------------------------------------------
(* Claims about concurrent calls of check_limit.                           *)

\* C12: with the calls of at most N tasks in flight for one user, no window
\* counter ever exceeds the limit of its window by more than N - 1.
C12_BoundedOvershoot ==
    \A c \in RateCounters :
        c[2] <= LimitOf(current_user.tier, c[1][3]) + Cardinality(Tasks) - 1

\* two calls passed the burst check before either counted: the burst counter
\* stands at its limit plus 1
C12_Witness ==
    \E c \in RateCounters :
        /\ c[1][3] = "burst"
        /\ c[2] = LimitOf(current_user.tier, "burst") + Cardinality(Tasks) - 1

\* the _increment_counter calls made so far on the n-th window of the
\* bucket the run started in: those of the calls that returned true and
\* those of the calls in flight that are past their n-th increment
IncrementsDone(n) ==
    Cardinality({i \in DOMAIN results : results[i].allowed})
        + Cardinality({t \in Tasks : \E j \in (n + 1)..4 : At(t, IncrAt[j])})

FirstKey(n) == RateKey(current_user.id, WindowKinds[n], WindowSize[WindowKinds[n]], T0)

\* C19: as long as no key has expired, under every interleaving of the
\* calls each window counter equals the number of increments made on it: no
\* update is lost, in the backend and in the local store.
C19_AtomicIncrement ==
    ticks = 0 =>
        \A n \in 1..4 :
            Held(redis, local_cache, FirstKey(n)) = IncrementsDone(n)

\* two calls are in flight over the backend, both have made their burst
\* increment and neither has returned
C19_Witness ==
    /\ redis_client
    /\ \A t \in Tasks : At(t, IncrAt[2])
    /\ RedisGetInt(redis, FirstKey(1)) = 2

\* a call that is entered is left suspended at its first window check
EnterAndSuspend ==
    \E t \in Tasks : (TaskCheckLimit(t, current_user.id) /\ pc'[t].at = CheckAt[1])

\* C23 as stated: with the backend absent, a call that can be entered can be
\* left suspended between its window checks and its increments, so that a
\* second call for the same user passes the same checks before the first counts.
C23_LocalRaceApplies ==
    (~redis_client /\ \E t \in Tasks : ENABLED TaskCheckLimit(t, current_user.id))
        => ENABLED EnterAndSuspend

\* C23 (amended): with the backend absent no call is ever suspended between its
\* window checks and its increments, and no window counter is above its limit.
C23_LocalCallsSerialised ==
    ~redis_client =>
        /\ InFlight = {}
        /\ \A c \in RateCounters : c[2] <= LimitOf(current_user.tier, c[1][3])

\* without a backend two calls were admitted, the burst counter stands at its
\* limit and a further call was denied
C23_Witness ==
    /\ ~redis_client
    /\ Cardinality({k \in 1..Len(results) : results[k].allowed}) >= 2
    /\ \E k \in 1..Len(results) : ~results[k].allowed
    /\ \E c \in RateCounters :
           c[1][3] = "burst" /\ c[2] = LimitOf(current_user.tier, "burst")

-----------------------------------------------------------------------------
(* Claims about the concurrency governor.                                  *)

\* the slot records of a user, in both stores
SlotRecordCount(u) ==
    Cardinality({k \in DOMAIN redis : k[1] = "analysis" /\ k[2] = u})
        + Cardinality({k \in DOMAIN local_cache : k[1] = "analysis" /\ k[2] = u})

\* the active counter of a user, in both stores
ActiveCount(u) == RedisGetInt(redis, ConcKey(u)) + LocalGet(local_cache, ConcKey(u))

SlotExists(id) == AnalysisKey(id) \in DOMAIN redis \cup DOMAIN local_cache

\* task t takes the step it is suspended at
Leaves(t, label) == pc[t].at = label /\ pc'[t].at # label

\* C1: the number of a user's live slot records never exceeds the
\* max_concurrent of the user's tier.
C1_SlotsBounded ==
    \A u \in Users :
        SlotRecordCount(u) <= TierLimits(subscription_tier(u)).concurrent_analyses

\* C3: while no call is in flight, each user's active counter equals the
\* number of slot records the user owns.
C3_CounterMatchesRecords ==
    InFlight = {} => \A u \in Users : ActiveCount(u) = SlotRecordCount(u)

\* C4: a finish_analysis whose slot record does not exist leaves the active
\* counters and the slot records as they were: without a backend the call is
\* one step; with one, the DECR of a finish that runs alone is not made for
\* a token without a record.
C4_Frame ==
    /\ (ret'.op = "finish" /\ ~redis_client /\ ~SlotExists(ret'.tok))
          => (redis' = redis /\ local_cache' = local_cache)
    /\ \A t \in Tasks :
          (Leaves(t, "finish_decr") /\ pc[t].alone /\ ~SlotExists(pc[t].tok))
              => redis' = redis

C4_IdempotentRelease == [][C4_Frame]_vars

\* C5: no active counter is ever negative, in the distributed store and in
\* the local store.
C5_NonNegative ==
    \A u \in Users :
        /\ RedisGetInt(redis, ConcKey(u)) >= 0
        /\ LocalGet(local_cache, ConcKey(u)) >= 0

\* now - issued_at > lease_ttl
Expired(id) == clock - id[2] > LEASE_TTL

RECURSIVE TotalOver(_, _)
TotalOver(bag, ids) ==
    IF ids = {} THEN 0
    ELSE LET id == CHOOSE x \in ids : TRUE
         IN  bag[id] + TotalOver(bag, ids \ {id})

\* the slots of a user that were started and whose lease has not run out
LiveStarts(u) == TotalOver(starts, {id \in DOMAIN starts : id[1] = u /\ ~Expired(id)})

\* C6: when no slot is ever finished, then right after a sweep that ran
\* alone no record of an expired slot is left and every expired slot has
\* given its unit of the owner's active count back: the count is at most the
\* number of the owner's slots whose lease still runs.
C6_LeaseReclamation ==
    (ret.op = "sweep" /\ ret.alone /\ InFlight = {}) =>
        \A u \in Users :
            /\ \A id \in DOMAIN starts : id[1] = u /\ Expired(id) => ~SlotExists(id)
            /\ ActiveCount(u) <= LiveStarts(u)

\* C7: over its whole life a slot causes at most one decrement of its
\* owner's active counter: the decrements made on behalf of a token never
\* outnumber the starts that returned it.
C7_NoDoubleRelease ==
    \A id \in DOMAIN starts : Count(decs, id) <= starts[id]

\* check_concurrent_analyses as the next StartSlot of the user would answer
CanStart(u) ==
    check_concurrent_analyses(redis_client, Stores, u, subscription_tier(u), TRUE)

\* C11: a finish_analysis whose slot record exists lowers the owner's active
\* counter by exactly 1 and deletes the record, so that a user who was at
\* max_concurrent before the call (start denied) is below it after the call
\* (start allowed).  Without a backend the call is one step; with one, a
\* finish that ran alone and returns from the DEL of an existing record has
\* made its DECR.
C11_Effect ==
    /\ \A u \in Users : \A id \in TokensOf(u) :
          (ret'.op = "finish" /\ ret'.user = u /\ ret'.tok = id /\ ~redis_client
            /\ SlotExists(id)) =>
              /\ ActiveCount(u)' = ActiveCount(u) - 1
              /\ ~SlotExists(id)'
              /\ (~CanStart(u) => CanStart(u)')
    /\ \A t \in Tasks :
          (Leaves(t, "finish_delete") /\ pc[t].alone /\ ret'.op = "finish"
            /\ ~ret'.failed /\ SlotExists(pc[t].tok)) =>
              /\ pc[t].acc[1] > 0
              /\ ~SlotExists(pc[t].tok)'

C11_FinishFreesCapacity == [][C11_Effect]_vars

\* the slot records of both stores
SlotRecords == {k \in DOMAIN redis \cup DOMAIN local_cache : k[1] = "analysis"}

\* the ids on whose behalf a sweep of the local store run in this state
\* decrements a counter
SweepDecrements ==
    LET dec == cleanup_stale_analyses(FALSE, Stores, clock, <<>>, TRUE).dec
    IN  {dec[i] : i \in DOMAIN dec}

\* C18: a slot record whose age is at most the lease (now - issued_at <=
\* 3600) outlives every sweep and every expiry of a backend key, and so does
\* the unit it holds of its owner's active counter.
C18_Step ==
    /\ ret'.op = "tick" =>
          \A k \in SlotRecords :
              clock' - k[3] <= LEASE_TTL =>
                  /\ k \in DOMAIN redis' \cup DOMAIN local_cache'
                  /\ ActiveCount(k[2])' = ActiveCount(k[2])
    /\ (ret'.op = "sweep" /\ ~redis_client) =>
          /\ \A k \in SlotRecords :
                clock - k[3] <= LEASE_TTL => k \in DOMAIN redis' \cup DOMAIN local_cache'
          /\ \A id \in SweepDecrements : clock - id[2] > LEASE_TTL
    /\ \A t \in Tasks :
          (Leaves(t, "sweep_decr") \/ Leaves(t, "sweep_delete"))
              => clock - pc[t].tok[2] > LEASE_TTL

C18_LiveSlotKept == [][C18_Step]_vars

C25_Step ==
    (ret'.op = "start" /\ ret'.result) => ~SlotExists(ret'.tok)

\* C25: the analysis_id a start returns differs from the analysis_id of every
\* slot that is live when the start is made, also for a slot of the same user
\* started within the same clock second.
C25_TokenUniqueness == [][C25_Step]_vars

-----------------------------------------------------------------------------
(* Claims about the calls whose backend call raises.                       *)

\* the step is made by task t and the backend call of the step raised
FailedStep(t) == ret'.failed /\ ret'.task = t

\* the patterns in which the first n backend calls of one call may fail
Outages(n) == {oks \in [1..8 -> BOOLEAN] : \A i \in 1..8 : i > n => oks[i]}

\* C13: whichever backend call raises during check_limit, a start,
\* finish_analysis or get_current_usage, the call catches the error, goes on
\* against the local store and returns its normal result: the step in which
\* the backend call raised leaves the backend as it was, reads or writes the
\* local store in its place, and no error reaches the caller.
C13_Step ==
    \A t \in Tasks :
        (FailedStep(t) /\ pc[t].at \notin {"reset_keys", "reset_delete"}) =>
            LET u == pc[t].user
                conc == LocalGet(local_cache, ConcKey(u))
            IN  /\ redis' = redis
                /\ ret'.op # "raise"
                /\ \A i \in 1..4 :
                      /\ At(t, CheckAt[i]) =>
                            /\ local_cache' = local_cache
                            /\ IF LocalGet(local_cache, KeyOf(t, i))
                                    < LimitOf(subscription_tier(u), WindowKinds[i])
                               THEN pc'[t].at = IF i < 4 THEN CheckAt[i + 1] ELSE IncrAt[1]
                               ELSE ret'.op = "check_limit" /\ ~ret'.result
                      /\ At(t, IncrAt[i]) =>
                            /\ LocalGet(local_cache', KeyOf(t, i))
                                  = LocalGet(local_cache, KeyOf(t, i)) + 1
                            /\ IF i < 4 THEN pc'[t].at = IncrAt[i + 1]
                               ELSE ret'.op = "check_limit" /\ ret'.result
                      /\ At(t, UsageAt[i]) =>
                            /\ local_cache' = local_cache
                            /\ (IF i < 4 THEN pc'[t].acc ELSE ret'.data)[i]
                                  = LocalGet(local_cache, KeyOf(t, i))
                            /\ i = 4 => ret'.op = "usage"
                /\ At(t, "conc_get") =>
                      /\ local_cache' = local_cache
                      /\ IF conc < TierLimits(subscription_tier(u)).concurrent_analyses
                         THEN pc'[t].at = "start_incr"
                         ELSE ret'.op = "start" /\ ~ret'.result
                /\ pc[t].at \in {"start_incr", "start_expire", "start_set"} =>
                      /\ ret'.op = "start" /\ ret'.result /\ ret'.tok = pc[t].tok
                      /\ AnalysisKey(pc[t].tok) \in DOMAIN local_cache'
                      /\ LocalGet(local_cache', ConcKey(u)) = conc + 1
                /\ pc[t].at \in FinishLabels =>
                      /\ ret'.op = "finish" /\ ret'.tok = pc[t].tok
                      /\ AnalysisKey(pc[t].tok) \notin DOMAIN local_cache'
                      /\ LocalGet(local_cache', ConcKey(u))
                            = IF conc > 0 THEN conc - 1 ELSE conc

C13_FailOpen == [][C13_Step]_vars

\* a call over a connected backend was admitted and counted partly in the
\* backend and partly, after a call to it raised, in the local store
C13_Witness ==
    /\ redis_client
    /\ ret.op = "check_limit" /\ ret.result
    /\ RateKeysOf(redis, current_user.id) # {}
    /\ RateKeysOf(local_cache, current_user.id) # {}

\* C16: right after a reset_user_limits(u) that ran alone has returned,
\* whatever calls and outages came before it, get_current_usage(u) reports 0
\* for the four windows and get_rate_limit_info(u, tier) is not rate
\* limited, for every tier of the table.
C16_ResetCompleteness ==
    (ret.op = "reset" /\ ret.result /\ ret.alone /\ InFlight = {}) =>
        \A oks \in Outages(4) :
            /\ \A n \in 1..4 :
                  get_current_usage(redis_client, Stores, ret.user, clock,
                                    oks)[WindowKinds[n]] = 0
            /\ \A tier \in DOMAIN tier_limits :
                  ~get_rate_limit_info(redis_client, Stores, ret.user, tier, clock,
                                       oks).is_rate_limited

\* C17: right after a reset_user_limits(u) that ran alone has returned, u
\* owns no slot record and u's active counter is 0, so that the next start
\* of u is allowed.
C17_ResetClearsSlots ==
    (ret.op = "reset" /\ ret.result /\ ret.alone /\ InFlight = {}) =>
        /\ SlotRecordCount(ret.user) = 0
        /\ ActiveCount(ret.user) = 0
        /\ CanStart(ret.user)

\* the number of stores that hold the slot record of a token
RecordCopies(r, l, id) ==
    (IF AnalysisKey(id) \in DOMAIN r THEN 1 ELSE 0)
        + (IF AnalysisKey(id) \in DOMAIN l THEN 1 ELSE 0)

\* the units a start that is suspended at the label has already added to the
\* active counter of its user
AddedBefore(label) == IF label \in {"start_expire", "start_set"} THEN 1 ELSE 0

C24_Step ==
    \A t \in Tasks :
        (ret'.op = "start" /\ ret'.result /\ ret'.task = t) =>
            /\ AddedBefore(pc[t].at)
                 + RedisGetInt(redis', ConcKey(ret'.user))
                 + LocalGet(local_cache', ConcKey(ret'.user))
                 - ActiveCount(ret'.user) = 1
            /\ RecordCopies(redis', local_cache', ret'.tok) = 1

\* C24: whichever backend call of a start fails, after the start has returned
\* the user's active count, summed over the two stores, has grown by exactly 1
\* and exactly one slot record exists for the returned token.
C24_StartAllOrNothing == [][C24_Step]_vars

\* C27: in a sequential run in which each backend call may succeed or fail
\* on its own, the number of admissions of the user within one burst bucket
\* never exceeds the burst limit of the user's tier.
C27_LimitUnderFailure ==
    Sequential =>
        \A k \in 1..Len(results) :
            AdmittedIn(results[k].t \div BURST_WINDOW)
                <= LimitOf(current_user.tier, "burst")

\* C14: after the same sequence of check_limit, start and finish calls at
\* the same clock, the controller without backend gives the next call the
\* decision the controller served by the backend gives it.
C14_FallbackContinuity ==
    InFlight = {} =>
        LET u == current_user.id
            tier == current_user.tier
        IN  /\ check_limit(FALSE, LocalRun, u, tier, clock, NoFail).allowed
                  = check_limit(TRUE, BackendRun, u, tier, clock, NoFail).allowed
            /\ check_concurrent_analyses(FALSE, LocalRun, u, tier, TRUE)
                  = check_concurrent_analyses(TRUE, BackendRun, u, tier, TRUE)

-----------------------------------------------------------------------------
(* Claims about the tiers and the status.                                  *)

\* C15: check_limit, a start and the info call made with a tier that the
\* policy table does not have end in an error; none of them reaches a
\* result computed from the limits of another tier.
C15_UnknownTierSurfaced ==
    current_user.tier \notin DOMAIN tier_limits
        => ret.op \notin {"check_limit", "start", "info"}

\* what get_rate_limit_info and check_limit make of the present state
InfoNow ==
    get_rate_limit_info(redis_client, Stores, current_user.id, current_user.tier,
                        clock, NoFail)

DecisionNow ==
    check_limit(redis_client, Stores, current_user.id, current_user.tier, clock, NoFail)

C20_State ==
    /\ \A n \in 1..4 :
          InfoNow.remaining[WindowKinds[n]]
              = LimitOf(current_user.tier, WindowKinds[n])
                  - Usage(current_user.id)[WindowKinds[n]]
    /\ InfoNow.is_rate_limited <=>
          \E n \in 1..4 :
              Usage(current_user.id)[WindowKinds[n]]
                  >= LimitOf(current_user.tier, WindowKinds[n])
    /\ InfoNow.is_rate_limited <=> ~DecisionNow.allowed

\* an info call that ran alone while the clock stood returns what the state
\* it returns in gives
C20_Step ==
    \A t \in Tasks :
        (ret'.op = "info" /\ ret'.task = t /\ ret'.alone
          /\ (redis_client => pc[t].time = clock)) =>
            (ret'.result <=> ~DecisionNow.allowed)

\* C20: get_rate_limit_info(u, tier) reports remaining = limit - usage for
\* each window, and is_rate_limited exactly when some window's usage has
\* reached its limit, which is exactly when check_limit(u, tier) called in
\* the same state at the same time returns false.
C20_InfoMatchesEnforcement == []C20_State /\ [][C20_Step]_vars

\* the info call reported a user as rate limited whose burst window is
\* full while the other windows have room
C20_Witness ==
    /\ ret.op = "info" /\ ret.result
    /\ Usage(current_user.id)["burst"] = LimitOf(current_user.tier, "burst")
    /\ Usage(current_user.id)["hourly"] < LimitOf(current_user.tier, "hourly")

\* the reset time Info reports for a window kind
ResetTime(limit_type) ==
    get_rate_limit_info(redis_client, Stores, current_user.id, current_user.tier,
                        clock, NoFail).reset_times[limit_type]

\* the bucket index in the counter key of a window kind at time t
BucketIndex(limit_type, t) ==
    RateKey(current_user.id, limit_type, WindowSize[limit_type], t)[4]

\* the times from now up to the reset that are looked at: all of them for the
\* minute; for a larger window the two ends and one per bucket of the next
\* smaller window
Probes(now, reset, n) ==
    IF n = 1
    THEN now..(reset - 1)
    ELSE LET step == WindowSize[WindowKinds[n - 1]]
         IN  {now, reset - 1} \cup {now + step * j : j \in 0..((reset - 1 - now) \div step)}

\* C21: for each of the four windows the reset time reported by Info is
\* (floor(now/W) + 1) * W, it lies after now and at most W later, the bucket
\* index of the counter keys is the same from now up to the second before the
\* reset, and it is larger at the reset.
C21_ResetIsNextBucket ==
    \A n \in 1..4 :
        LET limit_type == WindowKinds[n]
            W == WindowSize[limit_type]
            reset == ResetTime(limit_type)
        IN  /\ reset = ((clock \div W) + 1) * W
            /\ clock < reset
            /\ reset <= clock + W
            /\ \A t \in Probes(clock, reset, n) :
                   BucketIndex(limit_type, t) = BucketIndex(limit_type, clock)
            /\ BucketIndex(limit_type, reset) > BucketIndex(limit_type, clock)

\* Info was asked on a bucket boundary of the month, with a counter in the store
C21_Witness ==
    /\ ret.op = "info"
    /\ clock % MONTHLY_WINDOW = 0
    /\ Len(results) > 0

\* No method assigns self.tier_limits or one of its rows, and
\* get_tier_limits hands out a copy, so the table is a definition of the
\* model; what the operations report of it is looked at in every state they
\* reach.
LimitFields ==
    {"burst_limit", "hourly_limit", "daily_limit", "monthly_limit",
     "concurrent_analyses"}

\* the limits Info reports for a tier in the current state
ReportedLimits(tier) ==
    get_rate_limit_info(redis_client, Stores, current_user.id, tier, clock,
                        NoFail).limits

\* C22: in every state the operations reach, the limits reported for the
\* tiers are those of the static table, and for each of burst, hourly, daily,
\* monthly and max_concurrent the enterprise value is at least the pro value
\* and the pro value at least the free value.
C22_TierScaling ==
    LET free == ReportedLimits("free")
        pro == ReportedLimits("pro")
        enterprise == ReportedLimits("enterprise")
    IN  /\ free = tier_limits["free"]
        /\ pro = tier_limits["pro"]
        /\ enterprise = tier_limits["enterprise"]
        /\ \A tier \in DOMAIN tier_limits : get_tier_limits(tier) = tier_limits[tier]
        /\ \A field \in LimitFields :
               /\ enterprise[field] >= pro[field]
               /\ pro[field] >= free[field]

\* Info was asked for a paying user who holds a slot
C22_Witness ==
    /\ ret.op = "info"
    /\ current_user.tier = "pro"
    /\ SlotRecordCount(current_user.id) > 0

-----------------------------------------------------------------------------
(* Claims about the lazy sweep of the local store.                         *)

CurrentKey(u, n) == RateKey(u, WindowKinds[n], WindowSize[WindowKinds[n]], clock)

\* the keys a step removes from the local store
LocalDeleted == DOMAIN local_cache \ DOMAIN local_cache'

\* a counter of a rate window whose bucket lies before the current one
PastBucket(k) ==
    /\ k[1] = "rate_limit"
    /\ k[4] < clock \div WindowSize[k[3]]

C26_Step ==
    ret'.op \in {"check_limit", "raise"} => \A k \in LocalDeleted : PastBucket(k)

\* C26: a check_limit call, the lazy sweep of the local store included,
\* deletes only counters of rate windows whose bucket is no longer current for
\* their window kind: never a counter of a current bucket of any user, never
\* an active-slot counter and never a slot record.
C26_SweepDeletesOnlyPast == [][C26_Step]_vars

\* the current counters, the active counter and the slot records of every
\* user but u are after the step what they were before
OthersUntouched(u) ==
    \A v \in Users \ {u} :
        /\ \A n \in 1..4 :
              /\ LocalGet(local_cache', CurrentKey(v, n))
                     = LocalGet(local_cache, CurrentKey(v, n))
              /\ RedisGetInt(redis', CurrentKey(v, n)) = RedisGetInt(redis, CurrentKey(v, n))
              /\ CurrentKey(v, n) \in DOMAIN local_cache
                     => CurrentKey(v, n) \in DOMAIN local_cache'
        /\ RedisGetInt(redis', ConcKey(v)) + LocalGet(local_cache', ConcKey(v))
               = ActiveCount(v)
        /\ \A k \in SlotRecords :
               k[2] = v => k \in DOMAIN redis' \cup DOMAIN local_cache'

\* the slot records of a user that a step removes
Reclaimed(v) ==
    {k \in SlotRecords : k[2] = v /\ k \notin DOMAIN redis' \cup DOMAIN local_cache'}

C29_Step ==
    /\ ret'.op \in {"check_limit", "raise", "start", "finish", "reset"}
          => OthersUntouched(ret'.user)
    /\ ret'.op = "sweep" =>
          \A v \in Users :
              LET after == RedisGetInt(redis', ConcKey(v)) + LocalGet(local_cache', ConcKey(v))
              IN  /\ after <= ActiveCount(v)
                  /\ ActiveCount(v) - after <= Cardinality(Reclaimed(v))

\* C29: check_limit, a start, a finish and a reset made for one user, with
\* the lazy sweep they trigger, leave the current rate counters, the active
\* counter and the slot records of every other user as they were, and a sweep
\* decrements a user's active counter only for slots of that user it reclaims.
C29_UserIsolation == [][C29_Step]_vars

\* C30: check_limit always ends in a decision: in every state that is
\* reached, also with a local map above the sweep threshold that holds
\* active-slot counters and slot records, no call has raised.
C30_AlwaysDecides == ret.op # "raise"

-----------------------------------------------------------------------------
(* Claims about the analysis handler.                                      *)

\* the positions of a request between its start and the return of its finish
Holding == {"handler_body"} \cup FinishLabels

\* the positions of a request inside its start_analysis
Starting == {"start_incr", "start_expire", "start_set"}

C28_Step ==
    /\ \A t \in Tasks :
          \* a slot is started only by a request that check_limit admitted
          /\ (pc'[t].at \in Starting /\ pc[t].at \notin Starting)
                => (ret'.op = "check_limit" /\ ret'.result /\ ret'.task = t)
          \* the request holds the slot its start returned
          /\ (pc'[t].at \in Holding /\ pc[t].at \notin Holding)
                => (ret'.op = "start" /\ ret'.result /\ ret'.task = t
                      /\ ret'.user = pc'[t].user /\ ret'.tok = pc'[t].tok
                      /\ (redis_client => pc[t].at \in Starting))
          \* a request that holds a slot gives it up by one finish of its own
          \* user and token, after which it leaves, and by nothing else
          /\ (pc[t].at \in Holding /\ pc'[t].at \notin Holding)
                => (pc'[t].at = "idle" /\ ret'.op = "finish" /\ ret'.task = t
                      /\ ret'.user = pc[t].user /\ ret'.tok = pc[t].tok
                      /\ ret'.exit \in Exits)
          /\ (pc[t].at \in Holding /\ pc'[t].at \in Holding)
                => (pc'[t].tok = pc[t].tok /\ pc'[t].user = pc[t].user
                      /\ (ret'.task = t => ret'.op # "finish"))
    \* every start and every finish is made by a request in this order; a
    \* request without suspension point may make both in one step
    /\ starts' # starts =>
          \/ \E t \in Tasks : pc[t].at \in Starting /\ ret'.op = "start" /\ ret'.task = t
          \/ /\ ~redis_client
             /\ IsCheckStep /\ LastResult'.allowed
             /\ starts' = Bump(starts, ret'.tok)
             /\ ret'.op \in {"start", "finish"}
    /\ ret'.op = "finish" =>
          \/ \E t \in Tasks : pc[t].at \in Holding /\ ret'.task = t
          \/ /\ ~redis_client
             /\ starts' = Bump(starts, ret'.tok)
             /\ AnalysisKey(ret'.tok) \notin DOMAIN redis' \cup DOMAIN local_cache'
    \* a request refused by check_limit starts no slot
    /\ (IsCheckStep /\ ~LastResult'.allowed)
          => (starts' = starts /\ \A t \in Tasks : ret'.task = t => pc'[t].at = "idle")

\* the finish of the request of task t has just returned
JustFinished(t) == ret.op = "finish" /\ ret.task = t /\ pc[t].at = "idle"

\* C28: in the handler every start is followed by exactly one finish for the
\* same user and token, whether the body returns, raises an HTTP error or
\* raises another exception, and a request refused by check_limit starts no
\* slot.
C28_CallerProtocol ==
    /\ [][C28_Step]_vars
    /\ \A t \in Tasks : (pc[t].at \in Holding ~> JustFinished(t))

\* over the backend a request whose body raised an unexpected exception has
\* left the handler after its finish, and a request was refused without a
\* start
C28_Witness ==
    /\ redis_client
    /\ ret.op = "finish" /\ ret.exit = "exception"
    /\ ~SlotExists(ret.tok)
    /\ \E k \in 1..Len(results) : ~results[k].allowed
    /\ Total(starts) < Len(results)
====
